---- MODULE Spec2Model ----
(***************************************************************************)
(* Sleetbubble IPFS streaming node: the sliding-window streamer            *)
(* (src/src/streamer/streamer.py) and the setup processor                  *)
(* (src/src/setup/setup_processor.py), sharing playlist.m3u and            *)
(* manifest.json on disk, and the state synchronizer                       *)
(* (src/src/state-sync/state-sync.py).                                     *)
(***************************************************************************)
EXTENDS Integers, Sequences, FiniteSets, TLC

\* ------------------------------------------------------------------ bounds
MaxSequence  == 4   \* the sequence an earlier run left in sequence_state.json
MaxPublished == 3   \* playlists published under the stream MN, over all runs
MaxSetupRuns == 2   \* invocations of the setup processor
MaxTime      == 1   \* clock readings (manifest timestamps)
MaxReconfigs == 1   \* rebuilds of the playlist while the node is in service
MaxTracks    == 4   \* tracks handed to build_playlist
MaxJingles   == 2   \* jingles handed to build_playlist
MaxCycle     == 3   \* jingles.cycle
MaxSegments  == 2   \* segments of one track or jingle
MaxTimestamp == 2   \* peer timestamps are 0, 100, .., 100 * MaxTimestamp

\* ------------------------------------------------------------- disk files
Absent  == [kind |-> "absent"]
Corrupt == [kind |-> "corrupt"]

\* sequence_state.json as save_sequence_state writes it
SeqDoc(n) == [kind |-> "json", sequence |-> n]

\* stream_info.json as write_stream_info writes it
InfoDoc(s, pos) == [kind |-> "json", sequence_number |-> s, playlist_position |-> pos]

\* lines of an .m3u / .m3u8 text
TagLine(t) == [kind |-> "tag", text |-> t]
InfLine(d) == [kind |-> "extinf", text |-> d]
UriLine(c) == [kind |-> "uri", text |-> c]    \* "/ipfs/<cid>"

M3uDoc(ls) == [kind |-> "m3u", lines |-> ls]

VARIABLES
    \* --- disk (STATE_DIR, PROCESSED_DIR)
    playlist_file,        \* playlist.m3u
    manifest_file,        \* manifest.json
    sequence_state_file,  \* sequence_state.json
    stream_info_file,     \* stream_info.json
    ipns_keys_file,       \* ipns_keys.json: the stream key id, or "none"
    \* --- streaming.config.json
    max_segments,
    advance_every,
    \* --- streamer process
    pc,                   \* "stopped" | "loop" | "uploaded" | "published" | "info_written"
    playlist_entries,     \* self.playlist_entries
    sequence_number,      \* self.sequence_number  (S)
    update_counter,       \* self.update_counter   (U)
    stream_key,           \* self.stream_key: key id or "none"
    playlist_content,     \* the playlist text built in the running tick
    updated,              \* main's updated: what the last update_stream returned
    \* --- the stream MN
    published,            \* every playlist published under <node_id>-stream, in order,
                          \* each with the virtual playlist it was cut from
    \* --- setup processor
    setup_config,         \* setup.config.json
    playlist_config,      \* playlist.config.json
    setup_run,            \* what the last run of the setup processor did
    setup_runs,           \* runs so far
    now,                  \* time.time()
    rglob_order,          \* the order in which source_path.rglob yields the files
                          \* below the source directory's subdirectories
    \* --- state synchronizer
    remote_states,        \* self.remote_states, in insertion order
    local_state,          \* self.local_state
    current_position_file, \* current_position.json
    last_published,       \* the last state the publisher put on the topic
    sync_log,             \* what the last handler of the synchronizer did
    \* --- state synchronizer: the subscriber's connection, the state file's rewrite
    running,              \* self.running
    sub_pc,               \* "idle" | "subscribing" | "consuming" | "sleeping" |
                          \* "returned" | "crashed"
    sub_frames,           \* frames of subscribe_to_topic on the main thread's stack
    writing,              \* sync_state: the state being dumped into the open file
    publisher_read,       \* what the publisher's last read of the state file returned
    \* --- multibase codec (state-sync.py, publish-state.py)
    topic,                \* the text handed to encode_topic_multibase
    data_multibase,       \* its encoding, as put on the wire
    data_text,            \* what the subscriber's decoding of it returns
    \* --- segment cleanup service and HLS uploader
    segment_state_file,   \* ipfs_segments.json
    hls_files,            \* the segment files in HLS_DIR
    gc_counter,           \* main's gc_counter
    cleanup_cycles,       \* cleanup cycles since the service started
    cleaner_log,          \* what the last cleanup cycle did
    segment_map,          \* SegmentState.segments["stream"], in insertion order
    uploader_log,         \* what the uploader's last handler did
    \* --- the media playlist text (streamer.py, generate_hls_playlist)
    hls_segments,         \* the window handed to generate_hls_playlist
    hls_sequence,         \* self.sequence_number in the call
    hls_time,             \* datetime.utcnow() in the call, in microseconds
    hls_text,             \* the text returned
    \* --- state-sync.py, the reaper's pass in progress
    reaper_pass           \* current_time, the keys left to visit, the decision taken

diskVars     == <<playlist_file, manifest_file, sequence_state_file, stream_info_file,
                  ipns_keys_file>>
configVars   == <<max_segments, advance_every>>
streamerVars == <<pc, playlist_entries, sequence_number, update_counter, stream_key,
                  playlist_content, updated>>
setupVars    == <<setup_config, playlist_config, setup_run, setup_runs, now,
                  rglob_order>>
syncVars     == <<remote_states, local_state, current_position_file, last_published,
                  sync_log>>
subVars      == <<running, sub_pc, sub_frames>>
rewriteVars  == <<writing, publisher_read>>
codecVars    == <<topic, data_multibase, data_text>>
cleanerVars  == <<segment_state_file, hls_files, gc_counter, cleanup_cycles, cleaner_log>>
uploaderVars == <<segment_map, uploader_log>>
textVars     == <<hls_segments, hls_sequence, hls_time, hls_text>>
reaperVars   == <<reaper_pass>>
auxVars      == <<subVars, rewriteVars, codecVars, textVars, reaperVars, cleanerVars,
                  uploaderVars>>
vars == <<diskVars, configVars, streamerVars, published, setupVars, syncVars, auxVars>>

\* ------------------------------------------------------------ streamer.py

\* load_playlist: the CIDs of the lines that start with /ipfs/, in file order
RECURSIVE LoadPlaylistLines(_)
LoadPlaylistLines(ls) ==
    IF ls = <<>> THEN <<>>
    ELSE IF Head(ls).kind = "uri"
         THEN <<Head(ls).text>> \o LoadPlaylistLines(Tail(ls))
         ELSE LoadPlaylistLines(Tail(ls))

load_playlist(file) == LoadPlaylistLines(file.lines)

\* load_sequence_state resuming one position after the stored one
load_sequence_state_next(file, readOk) ==
    IF file.kind = "json" /\ readOk THEN file.sequence + 1 ELSE 0

\* load_sequence_state: the stored sequence; 0 when the file is absent or
\* cannot be read (readOk = FALSE: open, json.load or the 'sequence' lookup raised)
load_sequence_state(file, readOk) ==
    IF file.kind = "json" /\ readOk THEN file.sequence ELSE 0

\* save_sequence_state storing the playlist position instead of the counter
save_sequence_state_mod(old, seq, outcome) ==
    CASE outcome = "ok"        -> SeqDoc(seq % Len(playlist_entries))
      [] outcome = "unchanged" -> old
      [] outcome = "truncated" -> Corrupt

\* what save_sequence_state leaves on disk: the document when the write
\* succeeds; the old file when makedirs/open raised; a truncated file when
\* json.dump raised after open(..., 'w')
save_sequence_state(old, seq, outcome) ==
    CASE outcome = "ok"        -> SeqDoc(seq)
      [] outcome = "unchanged" -> old
      [] outcome = "truncated" -> Corrupt

WriteOutcomes == {"ok", "unchanged", "truncated"}

\* get_window_segments with the position taken modulo the window size
get_window_segments_modw(entries, seq, w) ==
    LET total_segments == Len(entries) IN
    IF total_segments = 0 THEN <<>>
    ELSE LET current_position == seq % w IN
         [i \in 1..w |-> entries[((current_position + (i - 1)) % total_segments) + 1]]

\* get_window_segments with the position moving on every refresh
get_window_segments_refresh(entries, seq, w) ==
    LET total_segments == Len(entries) IN
    IF total_segments = 0 THEN <<>>
    ELSE LET current_position == (seq + update_counter) % total_segments IN
         [i \in 1..w |-> entries[((current_position + (i - 1)) % total_segments) + 1]]

\* get_window_segments with the window starting one entry late
get_window_segments_late(entries, seq, w) ==
    LET total_segments == Len(entries) IN
    IF total_segments = 0 THEN <<>>
    ELSE LET current_position == seq % total_segments IN
         [i \in 1..w |-> entries[((current_position + i) % total_segments) + 1]]

\* get_window_segments
get_window_segments(entries, seq, w) ==
    LET total_segments == Len(entries) IN
    IF total_segments = 0 THEN <<>>
    ELSE LET current_position == seq % total_segments IN
         [i \in 1..w |-> entries[((current_position + (i - 1)) % total_segments) + 1]]

\* generate_hls_playlist: the MEDIA-SEQUENCE header and the segment URIs
\* (/ipfs/<cid>, by CID), in order
generate_hls_playlist(segments, seq) ==
    [media_sequence |-> seq, uris |-> segments]

NoContent == [media_sequence |-> 0, uris |-> <<>>]

\* write_stream_info reporting the sequence the advance rule is about to reach
write_stream_info_late(old, seq, entries, outcome) ==
    CASE outcome = "ok"        -> InfoDoc(seq + 1, (seq + 1) % Len(entries))
      [] outcome = "unchanged" -> old
      [] outcome = "truncated" -> Corrupt

\* write_stream_info: the file after the call; the old file when open raised,
\* a truncated file when json.dump raised after open(..., 'w')
write_stream_info(old, seq, entries, outcome) ==
    CASE outcome = "ok"        -> InfoDoc(seq, seq % Len(entries))
      [] outcome = "unchanged" -> old
      [] outcome = "truncated" -> Corrupt

\* process exit / kill: the in-memory state is gone
Stopped ==
    /\ pc' = "stopped"
    /\ playlist_entries' = <<>>
    /\ sequence_number' = 0
    /\ update_counter' = 0
    /\ stream_key' = "none"
    /\ playlist_content' = NoContent
    /\ updated' = "none"

\* main up to the loop: SlidingWindowStreamer.__init__ (load_manifest and
\* load_playlist exit the process when their file cannot be read), the read
\* of sequence_state.json succeeding or not as reads allows
StartStreamer(reads) ==
    /\ pc = "stopped"
    /\ IF manifest_file.kind # "json" \/ playlist_file.kind # "m3u"
       THEN /\ Stopped
            /\ UNCHANGED <<diskVars, configVars, auxVars, syncVars, published, setupVars>>
       ELSE /\ playlist_entries' = load_playlist(playlist_file)
            /\ \E readOk \in reads :
                 sequence_number' = load_sequence_state(sequence_state_file, readOk)
            /\ update_counter' = 0
            \* IPNSManager.ensure_key: cached in ipns_keys.json, else key/list + key/gen
            /\ \/ /\ ipns_keys_file # "none"
                  /\ stream_key' = ipns_keys_file
                  /\ UNCHANGED ipns_keys_file
               \/ /\ ipns_keys_file = "none"
                  /\ \E keyOk \in BOOLEAN :
                       IF keyOk
                       THEN stream_key' = "k51stream" /\ ipns_keys_file' = "k51stream"
                       ELSE stream_key' = "none" /\ UNCHANGED ipns_keys_file
            /\ pc' = "loop"
            /\ playlist_content' = NoContent
            /\ updated' = "none"
            /\ UNCHANGED <<playlist_file, manifest_file, sequence_state_file,
                           stream_info_file, configVars, auxVars, syncVars, published, setupVars>>

StreamerStart == StartStreamer(BOOLEAN)

\* the process is killed or interrupted, anywhere
StreamerStop ==
    /\ pc # "stopped"
    /\ Stopped
    /\ UNCHANGED <<diskVars, configVars, auxVars, syncVars, published, setupVars>>

\* update_stream without the stream-key guard
UpdateStreamUpload_nokeycheck ==
    /\ pc = "loop"
    /\ LET window_segments ==
             get_window_segments(playlist_entries, sequence_number, max_segments)
           content ==
             generate_hls_playlist(window_segments, sequence_number)
       IN
       IF window_segments = <<>>
       THEN updated' = "False" /\ UNCHANGED <<pc, playlist_content>>
       ELSE \E uploadOk \in BOOLEAN :
              IF uploadOk
              THEN pc' = "uploaded" /\ playlist_content' = content /\ UNCHANGED updated
              ELSE updated' = "False" /\ UNCHANGED <<pc, playlist_content>>
    /\ UNCHANGED <<diskVars, configVars, auxVars, syncVars, playlist_entries, sequence_number,
                   update_counter, stream_key, published, setupVars>>

\* update_stream going on to the publish whatever upload_to_ipfs returned
UpdateStreamUpload_nofailcheck ==
    /\ pc = "loop"
    /\ LET window_segments ==
             get_window_segments(playlist_entries, sequence_number, max_segments)
           content ==
             generate_hls_playlist(window_segments, sequence_number)
       IN
       IF stream_key = "none"
       THEN updated' = "False" /\ UNCHANGED <<pc, playlist_content>>
       ELSE IF window_segments = <<>>
       THEN updated' = "False" /\ UNCHANGED <<pc, playlist_content>>
       ELSE \E uploadOk \in BOOLEAN :
              /\ pc' = "uploaded"
              /\ playlist_content' = IF uploadOk THEN content ELSE NoContent
              /\ UNCHANGED updated
    /\ UNCHANGED <<diskVars, configVars, auxVars, syncVars, playlist_entries, sequence_number,
                   update_counter, stream_key, published, setupVars>>

\* update_stream up to and including upload_to_ipfs
UpdateStreamUpload ==
    /\ pc = "loop"
    /\ LET window_segments ==
             get_window_segments(playlist_entries, sequence_number, max_segments)
           content ==
             generate_hls_playlist(window_segments, sequence_number)
       IN
       IF stream_key = "none"
       THEN updated' = "False" /\ UNCHANGED <<pc, playlist_content>>
       ELSE IF window_segments = <<>>
       THEN updated' = "False" /\ UNCHANGED <<pc, playlist_content>>
       ELSE \E uploadOk \in BOOLEAN :
              IF uploadOk
              THEN pc' = "uploaded" /\ playlist_content' = content /\ UNCHANGED updated
              ELSE updated' = "False" /\ UNCHANGED <<pc, playlist_content>>
    /\ UNCHANGED <<diskVars, configVars, auxVars, syncVars, playlist_entries, sequence_number,
                   update_counter, stream_key, published, setupVars>>

\* update_stream counting the refresh before the publish result is looked at
UpdateStreamPublish_counts ==
    /\ pc = "uploaded"
    /\ \E publishOk \in BOOLEAN :
         IF publishOk
         THEN /\ Len(published) < MaxPublished
              /\ published' = Append(published, [playlist |-> playlist_content,
                                                  entries  |-> playlist_entries])
              /\ pc' = "published"
              /\ UNCHANGED <<updated, playlist_content, update_counter>>
         ELSE /\ pc' = "loop"
              /\ updated' = "False"
              /\ playlist_content' = NoContent
              /\ update_counter' = (update_counter + 1) % advance_every
              /\ UNCHANGED published
    /\ UNCHANGED <<diskVars, configVars, auxVars, syncVars, playlist_entries, sequence_number,
                   stream_key, setupVars>>

\* update_stream: IPNSManager.publish of the uploaded playlist
UpdateStreamPublish ==
    /\ pc = "uploaded"
    /\ \E publishOk \in BOOLEAN :
         IF publishOk
         THEN /\ Len(published) < MaxPublished
              /\ published' = Append(published, [playlist |-> playlist_content,
                                                  entries  |-> playlist_entries])
              /\ pc' = "published"
              /\ UNCHANGED <<updated, playlist_content>>
         ELSE /\ pc' = "loop"
              /\ updated' = "False"
              /\ playlist_content' = NoContent
              /\ UNCHANGED published
    /\ UNCHANGED <<diskVars, configVars, auxVars, syncVars, playlist_entries, sequence_number,
                   update_counter, stream_key, setupVars>>

\* update_stream: write_stream_info (a failed write is logged and ignored)
UpdateStreamInfo ==
    /\ pc = "published"
    /\ \E outcome \in WriteOutcomes :
         stream_info_file' =
             write_stream_info(stream_info_file, sequence_number, playlist_entries,
                               outcome)
    /\ pc' = "info_written"
    /\ UNCHANGED <<playlist_file, manifest_file, sequence_state_file, ipns_keys_file,
                   configVars, auxVars, syncVars, playlist_entries, sequence_number, update_counter,
                   stream_key, playlist_content, updated, published, setupVars>>

\* advance_window taking the next position only once it is saved
AdvanceWindow_saved(outcomes) ==
    /\ pc = "info_written"
    /\ IF Len(playlist_entries) = 0
       THEN UNCHANGED <<sequence_number, update_counter, sequence_state_file>>
       ELSE IF update_counter + 1 >= advance_every
       THEN /\ update_counter' = 0
            /\ \E outcome \in outcomes :
                 /\ sequence_number' =
                       IF outcome = "ok" THEN sequence_number + 1 ELSE sequence_number
                 /\ sequence_state_file' =
                       save_sequence_state(sequence_state_file, sequence_number', outcome)
       ELSE /\ update_counter' = update_counter + 1
            /\ UNCHANGED <<sequence_number, sequence_state_file>>
    /\ pc' = "loop"
    /\ updated' = "True"
    /\ playlist_content' = NoContent
    /\ UNCHANGED <<playlist_file, manifest_file, stream_info_file, ipns_keys_file,
                   configVars, auxVars, syncVars, playlist_entries, stream_key, published, setupVars>>

\* advance_window, then update_stream returns True; the write of
\* sequence_state.json ends as one of outcomes
AdvanceWindow(outcomes) ==
    /\ pc = "info_written"
    /\ IF Len(playlist_entries) = 0
       THEN UNCHANGED <<sequence_number, update_counter, sequence_state_file>>
       ELSE IF update_counter + 1 >= advance_every
       THEN /\ sequence_number' = sequence_number + 1
            /\ update_counter' = 0
            /\ \E outcome \in outcomes :
                 sequence_state_file' =
                     save_sequence_state(sequence_state_file, sequence_number', outcome)
       ELSE /\ update_counter' = update_counter + 1
            /\ UNCHANGED <<sequence_number, sequence_state_file>>
    /\ pc' = "loop"
    /\ updated' = "True"
    /\ playlist_content' = NoContent
    /\ UNCHANGED <<playlist_file, manifest_file, stream_info_file, ipns_keys_file,
                   configVars, auxVars, syncVars, playlist_entries, stream_key, published, setupVars>>

advance_window == AdvanceWindow(WriteOutcomes)

StreamerNext ==
    \/ StreamerStart
    \/ StreamerStop
    \/ UpdateStreamUpload
    \/ UpdateStreamPublish
    \/ UpdateStreamInfo
    \/ advance_window

\* ------------------------------------------------------ setup_processor.py

\* the workspace: the audio files under the playlist source and the jingles
\* directory, sorted by path
MusicFiles  == <<"a.mp3", "b.mp3">>
JingleFiles == <<"j.mp3", "k.mp3">>

\* two more files below subdirectories of the source, of the same name and
\* different content; their extension is not one the scan of the source looks
\* for, so only a playlist configuration that lists the name reaches them
SubdirFiles == {"x/c.aac", "y/c.aac"}

\* Path.name of a file of the workspace or of a segment the transcoder wrote
Basename(path) ==
    CASE path \in SubdirFiles -> "c.aac"
      [] path \in {"x/c_000.ts", "y/c_000.ts"} -> "c_000.ts"
      [] OTHER -> path

\* the orders in which rglob can yield the files of the subdirectories
RglobOrders == {<<"x/c.aac", "y/c.aac">>, <<"y/c.aac", "x/c.aac">>}

\* the transcoder's segments of a file (deterministic in file and audio config)
SegmentsOf(file) ==
    CASE file = "a.mp3" -> <<"a_000.ts", "a_001.ts">>
      [] file = "b.mp3" -> <<"b_000.ts">>
      [] file = "j.mp3" -> <<"j_000.ts">>
      [] file = "k.mp3" -> <<"k_000.ts">>
      [] file = "x/c.aac" -> <<"x/c_000.ts">>
      [] file = "y/c.aac" -> <<"y/c_000.ts">>

\* the store's CID of a segment (content-addressed)
CidOf(segment) ==
    CASE segment = "a_000.ts" -> "T1_0"
      [] segment = "a_001.ts" -> "T1_1"
      [] segment = "b_000.ts" -> "T2_0"
      [] segment = "j_000.ts" -> "J0_0"
      [] segment = "k_000.ts" -> "J1_0"
      [] segment = "x/c_000.ts" -> "X1_0"
      [] segment = "y/c_000.ts" -> "Y1_0"

SegmentDuration == 6

\* the configurations an operator may write
SetupConfigs ==
    [force_rebuild : BOOLEAN,
     jingles : [enabled : BOOLEAN, cycle : {1}],
     audio : [segment_duration : {SegmentDuration}]]
PlaylistConfigs == [tracks : {<<>>, <<"b.mp3", "a.mp3">>}]

\* compute_config_hash: SHA-256 of the canonical JSON of both documents
\* (collision-free: distinct documents have distinct digests)
compute_config_hash(sc, plc) == [sha256 |-> [setup |-> sc, playlist |-> plc]]

ManifestDoc(h, t, tracks, jingles) ==
    [kind |-> "json", config_hash |-> h, timestamp |-> t,
     tracks |-> tracks, jingles |-> jingles]

\* needs_rebuild with the hash comparison inverted
needs_rebuild_inverted(sc, plc, manifest) ==
    IF sc.force_rebuild THEN TRUE
    ELSE IF manifest.kind # "json" THEN TRUE
    ELSE IF compute_config_hash(sc, plc) = manifest.config_hash THEN TRUE
    ELSE FALSE

\* needs_rebuild without the force_rebuild test
needs_rebuild_noforce(sc, plc, manifest) ==
    IF manifest.kind # "json" THEN TRUE
    ELSE IF compute_config_hash(sc, plc) # manifest.config_hash THEN TRUE
    ELSE FALSE

\* needs_rebuild
needs_rebuild(sc, plc, manifest) ==
    IF sc.force_rebuild THEN TRUE
    ELSE IF manifest.kind # "json" THEN TRUE
    ELSE IF compute_config_hash(sc, plc) # manifest.config_hash THEN TRUE
    ELSE FALSE

\* list(source_path.rglob(track)): the files of that name below the source,
\* in the order the directory scan yields them
Found(track, order) ==
    LET Named(path) == Basename(path) = track IN SelectSeq(order, Named)

\* the loop over the listed tracks: source_path / track when it exists, else
\* the first file rglob finds, else the track is skipped with a warning
RECURSIVE ExistingTracks(_, _)
ExistingTracks(names, order) ==
    IF names = <<>> THEN <<>>
    ELSE IF \E i \in 1..Len(MusicFiles) : MusicFiles[i] = Head(names)
         THEN <<Head(names)>> \o ExistingTracks(Tail(names), order)
         ELSE IF Found(Head(names), order) # <<>>
         THEN <<Found(Head(names), order)[1]>> \o ExistingTracks(Tail(names), order)
         ELSE ExistingTracks(Tail(names), order)

\* get_music_files: the listed tracks that exist, in list order; else every
\* audio file, sorted
get_music_files(plc) ==
    IF plc.tracks # <<>> THEN ExistingTracks(plc.tracks, rglob_order) ELSE MusicFiles

\* get_jingle_files
get_jingle_files(sc) == IF sc.jingles.enabled THEN JingleFiles ELSE <<>>

\* process_track when verification, chunking and every upload succeed
process_track(file, file_type) ==
    LET segs == SegmentsOf(file) IN
    [filename |-> Basename(file), type |-> file_type, segment_count |-> Len(segs),
     segments |-> [i \in 1..Len(segs) |->
                     [filename |-> Basename(segs[i]), cid |-> CidOf(segs[i])]]]

\* the two lines build_playlist appends per segment
RECURSIVE SegmentLines(_, _)
SegmentLines(segments, sc) ==
    IF segments = <<>> THEN <<>>
    ELSE <<InfLine(sc.audio.segment_duration), UriLine(Head(segments).cid)>>
         \o SegmentLines(Tail(segments), sc)

\* the plain loop keeping only the first segment of every track
RECURSIVE PlainLines_firstseg(_, _)
PlainLines_firstseg(tracks, sc) ==
    IF tracks = <<>> THEN <<>>
    ELSE SegmentLines(SubSeq(Head(tracks).segments, 1, 1), sc)
         \o PlainLines_firstseg(Tail(tracks), sc)

\* build_playlist, jingles disabled or none processed
RECURSIVE PlainLines(_, _)
PlainLines(tracks, sc) ==
    IF tracks = <<>> THEN <<>>
    ELSE SegmentLines(Head(tracks).segments, sc) \o PlainLines(Tail(tracks), sc)

\* the jingle loop without the increment of jingle_index
RECURSIVE JingleLines_noincr(_, _, _, _, _)
JingleLines_noincr(tracks, jingles, sc, track_counter, jingle_index) ==
    IF tracks = <<>> THEN <<>>
    ELSE LET insert == track_counter > 0 /\ track_counter % sc.jingles.cycle = 0
             jingle == jingles[(jingle_index % Len(jingles)) + 1]
         IN (IF insert THEN SegmentLines(jingle.segments, sc) ELSE <<>>)
            \o SegmentLines(Head(tracks).segments, sc)
            \o JingleLines_noincr(Tail(tracks), jingles, sc, track_counter + 1,
                                  jingle_index)

\* the jingle loop placing the jingle after every cycle-th track
RECURSIVE JingleLines_after(_, _, _, _, _)
JingleLines_after(tracks, jingles, sc, track_counter, jingle_index) ==
    IF tracks = <<>> THEN <<>>
    ELSE LET insert == (track_counter + 1) % sc.jingles.cycle = 0
             jingle == jingles[(jingle_index % Len(jingles)) + 1]
         IN SegmentLines(Head(tracks).segments, sc)
            \o (IF insert THEN SegmentLines(jingle.segments, sc) ELSE <<>>)
            \o JingleLines_after(Tail(tracks), jingles, sc, track_counter + 1,
                                 IF insert THEN jingle_index + 1 ELSE jingle_index)

\* build_playlist, the loop with track_counter and jingle_index
RECURSIVE JingleLines(_, _, _, _, _)
JingleLines(tracks, jingles, sc, track_counter, jingle_index) ==
    IF tracks = <<>> THEN <<>>
    ELSE LET insert == track_counter > 0 /\ track_counter % sc.jingles.cycle = 0
             jingle == jingles[(jingle_index % Len(jingles)) + 1]
         IN (IF insert THEN SegmentLines(jingle.segments, sc) ELSE <<>>)
            \o SegmentLines(Head(tracks).segments, sc)
            \o JingleLines(Tail(tracks), jingles, sc, track_counter + 1,
                           IF insert THEN jingle_index + 1 ELSE jingle_index)

build_playlist(tracks, jingles, sc) ==
    M3uDoc(<<TagLine("#EXTM3U")>> \o
           (IF ~sc.jingles.enabled \/ jingles = <<>>
            THEN PlainLines(tracks, sc)
            ELSE JingleLines(tracks, jingles, sc, 0, 0)))

\* the tracks (jingles) of files[1..n] / of the files whose index is in ok
ProcessAll(files, file_type) ==
    [i \in 1..Len(files) |-> process_track(files[i], file_type)]

\* ProcessSome keeping the jingles whose processing failed
RECURSIVE ProcessSome_all(_, _, _, _)
ProcessSome_all(files, file_type, ok, i) ==
    IF i > Len(files) THEN <<>>
    ELSE <<process_track(files[i], file_type)>>
         \o ProcessSome_all(files, file_type, ok, i + 1)

RECURSIVE ProcessSome(_, _, _, _)
ProcessSome(files, file_type, ok, i) ==
    IF i > Len(files) THEN <<>>
    ELSE (IF i \in ok THEN <<process_track(files[i], file_type)>> ELSE <<>>)
         \o ProcessSome(files, file_type, ok, i + 1)

RECURSIVE CountSegments(_)
CountSegments(tracks) ==
    IF tracks = <<>> THEN 0
    ELSE Head(tracks).segment_count + CountSegments(Tail(tracks))

\* what a run did: its exit ("ok", "failed": sys.exit(1), "killed": the
\* process was interrupted), the path taken, the transcoder invocations, the
\* add requests sent to the store and the jingles it warned about
NoRun == [exit |-> "none", cache_hit |-> FALSE, ffmpeg_calls |-> 0, ipfs_adds |-> 0,
          skipped |-> {}]

\* SetupProcessor.run, cache hit: the playlist is rebuilt from the manifest
RunCacheHit(sc, plc) ==
    /\ ~needs_rebuild(sc, plc, manifest_file)
    /\ playlist_file' = build_playlist(manifest_file.tracks, manifest_file.jingles, sc)
    /\ setup_run' = [exit |-> "ok", cache_hit |-> TRUE, ffmpeg_calls |-> 0,
                     ipfs_adds |-> 0, skipped |-> {}]
    /\ UNCHANGED manifest_file

\* a failed run that leaves a manifest of the tracks processed so far
RunRebuildFailed_partial(sc, plc) ==
    /\ needs_rebuild(sc, plc, manifest_file)
    /\ LET music_files == get_music_files(plc) IN
       \/ /\ music_files = <<>>
          /\ setup_run' = [exit |-> "failed", cache_hit |-> FALSE, ffmpeg_calls |-> 0,
                           ipfs_adds |-> 0, skipped |-> {}]
          /\ UNCHANGED <<playlist_file, manifest_file>>
       \/ \E failed \in 1..Len(music_files) :
            LET done == ProcessAll(SubSeq(music_files, 1, failed - 1), "track") IN
            /\ setup_run' = [exit |-> "failed", cache_hit |-> FALSE,
                             ffmpeg_calls |-> Len(done), ipfs_adds |-> CountSegments(done),
                             skipped |-> {}]
            /\ manifest_file' = ManifestDoc(compute_config_hash(sc, plc), now, done, <<>>)
            /\ UNCHANGED playlist_file

\* SetupProcessor.run, rebuild: no music file, or track number failed (1-based)
\* fails in process_track at some stage (verify_audio_file, chunk_audio_file,
\* the upload_to_ipfs of its segment number seg): the process exits 1 before
\* anything is written
RunRebuildFailed(sc, plc) ==
    /\ needs_rebuild(sc, plc, manifest_file)
    /\ LET music_files == get_music_files(plc) IN
       \/ /\ music_files = <<>>
          /\ setup_run' = [exit |-> "failed", cache_hit |-> FALSE, ffmpeg_calls |-> 0,
                           ipfs_adds |-> 0, skipped |-> {}]
       \/ \E failed \in 1..Len(music_files), stage \in {"verify", "chunk", "upload"} :
          \E seg \in 1..Len(SegmentsOf(music_files[failed])) :
            LET done == ProcessAll(SubSeq(music_files, 1, failed - 1), "track") IN
            /\ stage # "upload" => seg = 1
            /\ setup_run' = [exit |-> "failed", cache_hit |-> FALSE,
                             ffmpeg_calls |-> Len(done) + (IF stage = "verify" THEN 0 ELSE 1),
                             ipfs_adds |-> CountSegments(done)
                                           + (IF stage = "upload" THEN seg ELSE 0),
                             skipped |-> {}]
    /\ UNCHANGED <<playlist_file, manifest_file>>

\* the outcome of process_track for each jingle file
JingleOutcomes(jingle_files) ==
    [1..Len(jingle_files) -> {"ok", "verify", "chunk", "upload"}]

\* what a rebuild has in hand once the tracks and the jingles are processed
Rebuilt(sc, plc, outcome) ==
    LET music_files  == get_music_files(plc)
        jingle_files == get_jingle_files(sc)
        ok == {i \in 1..Len(jingle_files) : outcome[i] = "ok"}
        processed_tracks  == ProcessAll(music_files, "track")
        processed_jingles == ProcessSome(jingle_files, "jingle", ok, 1)
    IN [playlist |-> build_playlist(processed_tracks, processed_jingles, sc),
        manifest |-> ManifestDoc(compute_config_hash(sc, plc), now,
                                 processed_tracks, processed_jingles),
        run |-> [exit |-> "ok", cache_hit |-> FALSE,
                 ffmpeg_calls |-> Len(music_files)
                     + Cardinality({i \in 1..Len(jingle_files) : outcome[i] # "verify"}),
                 ipfs_adds |-> CountSegments(processed_tracks)
                     + CountSegments(processed_jingles)
                     + Cardinality({i \in 1..Len(jingle_files) : outcome[i] = "upload"}),
                 skipped |-> {jingle_files[i] : i \in (1..Len(jingle_files)) \ ok}]]

\* SetupProcessor.run, rebuild: every track processed, each jingle processed
\* or failed at some stage and skipped, playlist and manifest written
RunRebuild(sc, plc) ==
    /\ needs_rebuild(sc, plc, manifest_file)
    /\ get_music_files(plc) # <<>>
    /\ \E outcome \in JingleOutcomes(get_jingle_files(sc)) :
         LET r == Rebuilt(sc, plc, outcome) IN
         /\ playlist_file' = r.playlist
         /\ manifest_file' = r.manifest
         /\ setup_run' = r.run

\* SetupProcessor.run, rebuild, the process killed after playlist.m3u is
\* written and before manifest.json is opened
RunRebuildInterrupted(sc, plc) ==
    /\ needs_rebuild(sc, plc, manifest_file)
    /\ get_music_files(plc) # <<>>
    /\ \E outcome \in JingleOutcomes(get_jingle_files(sc)) :
         LET r == Rebuilt(sc, plc, outcome) IN
         /\ playlist_file' = r.playlist
         /\ setup_run' = [r.run EXCEPT !.exit = "killed"]
    /\ UNCHANGED manifest_file

\* one run of the setup processor
SetupRun ==
    /\ setup_runs < MaxSetupRuns
    /\ setup_runs' = setup_runs + 1
    /\ \/ RunCacheHit(setup_config, playlist_config)
       \/ RunRebuildFailed(setup_config, playlist_config)
       \/ RunRebuild(setup_config, playlist_config)
       \/ RunRebuildInterrupted(setup_config, playlist_config)
    /\ UNCHANGED <<sequence_state_file, stream_info_file, ipns_keys_file, configVars, auxVars, syncVars,
                   streamerVars, published, setup_config, playlist_config, rglob_order, now>>

\* the operator edits setup.config.json or playlist.config.json
EditConfig ==
    /\ \E sc \in SetupConfigs, plc \in PlaylistConfigs :
         /\ <<sc, plc>> # <<setup_config, playlist_config>>
         /\ setup_config' = sc
         /\ playlist_config' = plc
    /\ UNCHANGED <<diskVars, configVars, auxVars, syncVars, streamerVars, published, setup_run,
                   setup_runs, now, rglob_order>>

TimePasses ==
    /\ now < MaxTime
    /\ now' = now + 1
    /\ UNCHANGED <<diskVars, configVars, auxVars, syncVars, streamerVars, published, setup_config,
                   playlist_config, rglob_order, setup_run, setup_runs>>

\* the source tree is copied to another host or restored from a backup: the
\* same files, the directories enumerated in another order
SourceRestored ==
    /\ \E order \in RglobOrders \ {rglob_order} : rglob_order' = order
    /\ UNCHANGED <<diskVars, configVars, auxVars, syncVars, streamerVars, published,
                   setup_config, playlist_config, setup_run, setup_runs, now>>

SetupNext == SetupRun \/ EditConfig \/ TimePasses

\* ------------------------------------------------------------ state-sync.py

MaxStateAge == 300   \* sync_state: a state this old is not adopted
MaxPeerAge  == 600   \* cleanup_old_states: an entry older than this is dropped

\* the nodes of the topic and the position states they send
Peers == {"nodeA", "nodeB"}
Timestamps == {100 * k : k \in 0..MaxTimestamp}
PeerStates == [node_id : Peers, timestamp : Timestamps]

\* the state another local process writes to current_position.json
OwnState == [node_id |-> "self", timestamp |-> 100 * MaxTimestamp]

\* the instants at which the synchronizer's threads read time.time()
Clock ==
    LET t0 == 100 * MaxTimestamp IN
    {t0, t0 + MaxStateAge - 1, t0 + MaxStateAge, t0 + MaxPeerAge, t0 + MaxPeerAge + 1}

None == [kind |-> "none"]

\* current_position.json as json.dump writes it
PositionDoc(state) == [kind |-> "json", state |-> state]

\* self.remote_states[node_id] = data: a key already present keeps its place
\* in the dict, a new key goes last
RECURSIVE Put(_, _, _)
Put(states, node_id, data) ==
    IF states = <<>> THEN <<[node_id |-> node_id, data |-> data]>>
    ELSE IF Head(states).node_id = node_id
         THEN <<[node_id |-> node_id, data |-> data]>> \o Tail(states)
         ELSE <<Head(states)>> \o Put(Tail(states), node_id, data)

\* sync_state selecting the entry with the smallest timestamp
RECURSIVE SelectLatest_oldest(_, _)
SelectLatest_oldest(states, latest) ==
    IF states = <<>> THEN latest
    ELSE IF latest.state = None \/ Head(states).data.timestamp < latest.timestamp
         THEN SelectLatest_oldest(Tail(states),
                                  [state |-> Head(states).data.state,
                                   timestamp |-> Head(states).data.timestamp])
         ELSE SelectLatest_oldest(Tail(states), latest)

\* sync_state, the loop over remote_states.items(): latest_state and
\* latest_timestamp after the entries of states, starting from latest
RECURSIVE SelectLatest(_, _)
SelectLatest(states, latest) ==
    IF states = <<>> THEN latest
    ELSE IF Head(states).data.timestamp > latest.timestamp
         THEN SelectLatest(Tail(states), [state |-> Head(states).data.state,
                                          timestamp |-> Head(states).data.timestamp])
         ELSE SelectLatest(Tail(states), latest)

\* sync_state with the age taken from the arrival instead of the clock
Fresh_received(latest, current_time) == TRUE

\* sync_state: age = current_time - latest_timestamp; age < 300
Fresh(latest, current_time) == current_time - latest.timestamp < MaxStateAge

\* sync_state over the table states at current_time: the state to write, or
\* None when nothing is to be written
sync_state(states, current_time) ==
    LET latest == SelectLatest(states, [state |-> None, timestamp |-> 0]) IN
    IF latest.state # None /\ Fresh(latest, current_time) THEN latest.state ELSE None

\* the next value of sync_log: the handler run and what it did (for the
\* reaper, the node ids it removed); n alternates
Log(op, did) == [op |-> op, did |-> did, n |-> 1 - sync_log.n]

\* handle_state_update for a decoded message, sync_state included; the write
\* of current_position.json succeeds, or raises before or after truncating
\* the file (the exception ends the handler before local_state is assigned)
handle_state_update ==
    \E state \in PeerStates, outcome \in WriteOutcomes :
        LET data == [state |-> state, timestamp |-> state.timestamp,
                     received_at |-> now]
            latest_state == sync_state(remote_states', now)
        IN
        /\ remote_states' = Put(remote_states, state.node_id, data)
        /\ IF latest_state = None
           THEN /\ outcome = "ok"
                /\ UNCHANGED <<current_position_file, local_state>>
                /\ sync_log' = Log("update", "nothing")
           ELSE CASE outcome = "ok" ->
                       /\ current_position_file' = PositionDoc(latest_state)
                       /\ local_state' = latest_state
                       /\ sync_log' = Log("update", "written")
                  [] outcome = "unchanged" ->
                       /\ UNCHANGED <<current_position_file, local_state>>
                       /\ sync_log' = Log("update", "error")
                  [] outcome = "truncated" ->
                       /\ current_position_file' = Corrupt
                       /\ UNCHANGED local_state
                       /\ sync_log' = Log("update", "error")
        /\ UNCHANGED <<diskVars, configVars, auxVars, streamerVars, published, setupVars,
                       last_published>>

\* the reaper's test one second late
Stale_late(data, current_time) == current_time - data.received_at > MaxPeerAge + 1

\* cleanup_old_states: age = current_time - received_at; age > 600
Stale(data, current_time) == current_time - data.received_at > MaxPeerAge

RECURSIVE Reap(_, _)
Reap(states, current_time) ==
    IF states = <<>> THEN <<>>
    ELSE (IF Stale(Head(states).data, current_time) THEN <<>> ELSE <<Head(states)>>)
         \o Reap(Tail(states), current_time)

\* one pass of cleanup_old_states
cleanup_old_states ==
    /\ remote_states' = Reap(remote_states, now)
    /\ sync_log' = Log("reap", {remote_states[i].node_id : i \in 1..Len(remote_states)}
                               \ {remote_states'[i].node_id : i \in 1..Len(remote_states')})
    /\ UNCHANGED <<diskVars, configVars, auxVars, streamerVars, published, setupVars,
                   local_state, current_position_file, last_published>>

\* cleanup_old_states, one pass step by step, the subscriber's thread running
\* between the steps. The pass starts: current_time = time.time() and
\* list(self.remote_states.keys())
NoPass == [stage |-> "sleep", current_time |-> 0, keys |-> <<>>]

ReaperBegin ==
    /\ reaper_pass = NoPass
    /\ remote_states # <<>>
    /\ reaper_pass' = [stage |-> "test", current_time |-> now,
                       keys |-> [i \in 1..Len(remote_states) |-> remote_states[i].node_id]]
    /\ UNCHANGED <<diskVars, configVars, streamerVars, published, setupVars, syncVars,
                   subVars, rewriteVars, codecVars, textVars, cleanerVars, uploaderVars>>

\* the entry of the table under node_id
Entry(states, node_id) ==
    states[CHOOSE i \in 1..Len(states) : states[i].node_id = node_id]

RECURSIVE Delete(_, _)
Delete(states, node_id) ==
    IF states = <<>> THEN <<>>
    ELSE (IF Head(states).node_id = node_id THEN <<>> ELSE <<Head(states)>>)
         \o Delete(Tail(states), node_id)

\* the pass moves to its next key, or ends
NextKey(pass) ==
    IF Len(pass.keys) = 1 THEN NoPass
    ELSE [pass EXCEPT !.stage = "test", !.keys = Tail(pass.keys)]

\* the reaper reads received_at of the next key and tests its age
ReaperTest ==
    /\ reaper_pass.stage = "test"
    /\ reaper_pass' =
          IF Stale(Entry(remote_states, Head(reaper_pass.keys)).data,
                   reaper_pass.current_time)
          THEN [reaper_pass EXCEPT !.stage = "delete"]
          ELSE NextKey(reaper_pass)
    /\ UNCHANGED <<diskVars, configVars, streamerVars, published, setupVars, syncVars,
                   subVars, rewriteVars, codecVars, textVars, cleanerVars, uploaderVars>>

\* the reaper, its test passed: print, then del self.remote_states[node_id]
ReaperDelete ==
    /\ reaper_pass.stage = "delete"
    /\ remote_states' = Delete(remote_states, Head(reaper_pass.keys))
    /\ reaper_pass' = NextKey(reaper_pass)
    /\ sync_log' = Log("reap", {Head(reaper_pass.keys)})
    /\ UNCHANGED <<diskVars, configVars, streamerVars, published, setupVars,
                   local_state, current_position_file, last_published,
                   subVars, rewriteVars, codecVars, textVars, cleanerVars, uploaderVars>>

ReaperIdle == reaper_pass = NoPass

\* publish_local_state comparing with nothing: every cycle publishes
Changed_always(state, local) == TRUE

\* publish_local_state: state != self.local_state
Changed(state, local) == state # local

\* one cycle of publish_local_state: the request to pubsub/pub answers 200 or
\* not (or raises)
publish_cycle ==
    /\ IF current_position_file.kind = "json"
          /\ Changed(current_position_file.state, local_state)
       THEN \E ok \in BOOLEAN :
              IF ok
              THEN /\ local_state' = current_position_file.state
                   /\ last_published' = current_position_file.state
                   /\ sync_log' = Log("publish", "published")
              ELSE /\ UNCHANGED <<local_state, last_published>>
                   /\ sync_log' = Log("publish", "failed")
       ELSE /\ UNCHANGED <<local_state, last_published>>
            /\ sync_log' = Log("publish", "nothing")
    /\ UNCHANGED <<diskVars, configVars, streamerVars, published, setupVars,
                   remote_states, current_position_file>>

publish_local_state == publish_cycle /\ UNCHANGED auxVars

\* another process of the node writes its position to current_position.json
LocalWrite ==
    /\ current_position_file # PositionDoc(OwnState)
    /\ current_position_file' = PositionDoc(OwnState)
    /\ UNCHANGED <<diskVars, configVars, auxVars, streamerVars, published, setupVars,
                   remote_states, local_state, last_published, sync_log>>

\* the synchronizer is restarted: StateSync.__init__
SyncRestart ==
    /\ remote_states # <<>> \/ local_state # None
    /\ remote_states' = <<>>
    /\ local_state' = None
    /\ sync_log' = Log("start", "nothing")
    /\ UNCHANGED <<diskVars, configVars, auxVars, streamerVars, published, setupVars,
                   current_position_file, last_published>>

\* time.time() moves on
SyncTick ==
    /\ \E t \in Clock : t > now /\ now' = t
    /\ UNCHANGED <<diskVars, configVars, auxVars, streamerVars, published, setup_config,
                   playlist_config, rglob_order, setup_run, setup_runs, syncVars>>

\* the subscriber and the reaper, over time
SyncNext ==
    \/ handle_state_update
    \/ cleanup_old_states
    \/ SyncRestart
    \/ SyncTick

\* the reaper's thread and the subscriber's thread, over time
ReaperNext ==
    \/ handle_state_update
    \/ ReaperBegin
    \/ ReaperTest
    \/ ReaperDelete
    \/ SyncTick

\* the subscriber and the publisher, with another writer of the state file
PublisherNext ==
    \/ handle_state_update
    \/ publish_local_state
    \/ LocalWrite
    \/ SyncRestart

\* the synchronizer before run(): nothing received, nothing published
SyncIdle ==
    /\ remote_states = <<>>
    /\ local_state = None
    /\ current_position_file = Absent
    /\ last_published = None
    /\ sync_log = [op |-> "start", did |-> "nothing", n |-> 0]

\* ----------------------------------------- state-sync.py: the subscription

RecursionLimit == 3   \* frames of subscribe_to_topic the interpreter's stack holds

\* a line of the pubsub/sub response, by what the subscriber's decoding makes
\* of it: "state" decodes to a position state; "blank" is an empty keep-alive
\* line; "envelope" is not JSON; "no_data" is a JSON object without a data
\* field; "prefix" carries data that does not start with u; "base64" carries
\* data that urlsafe_b64decode rejects; "payload" decodes to bytes that are
\* not the JSON of an object
LineKinds == {"state", "blank", "envelope", "no_data", "prefix", "base64", "payload"}

\* the subscriber without the handlers around one line: a line that raises
\* ends the stream loop
AfterBadLine_drop(kind) ==
    IF kind \in {"blank", "no_data", "prefix"} THEN "consuming" ELSE "sleeping"

\* subscribe_to_topic, lines 67-82: a line that is skipped, or whose decoding
\* raises, leaves the subscriber in the loop over the stream
AfterBadLine(kind) == "consuming"

\* subscribe_to_topic: the POST to pubsub/sub answers 200, or answers
\* something else or raises (the except branch: sleep if running)
SubscribeRequest ==
    /\ sub_pc = "subscribing"
    /\ \E status \in {"ok", "refused"} :
         IF status = "ok"
         THEN /\ sub_pc' = "consuming"
              /\ sync_log' = Log("subscribe", "subscribed")
              /\ UNCHANGED sub_frames
         ELSE /\ sub_pc' = (IF running THEN "sleeping" ELSE "returned")
              /\ sub_frames' = (IF running THEN sub_frames ELSE 0)
              /\ sync_log' = Log("subscribe", "refused")
    /\ UNCHANGED <<diskVars, configVars, streamerVars, published, setupVars,
                   remote_states, local_state, current_position_file, last_published,
                   running, rewriteVars, codecVars, textVars, reaperVars, cleanerVars, uploaderVars>>

\* subscribe_to_topic, one line of the stream that is not a position state
IgnoreLine(kind) ==
    /\ sub_pc' = AfterBadLine(kind)
    /\ sync_log' = Log("ignored", kind)
    /\ UNCHANGED <<diskVars, configVars, streamerVars, published, setupVars,
                   remote_states, local_state, current_position_file, last_published,
                   running, sub_frames, rewriteVars, codecVars, textVars, reaperVars, cleanerVars,
                   uploaderVars>>

\* subscribe_to_topic, one iteration of the loop over response.iter_lines
ReceiveLine ==
    /\ sub_pc = "consuming"
    /\ \/ handle_state_update
       \/ \E kind \in LineKinds \ {"state"} : IgnoreLine(kind)

\* iter_lines raises (the connection broke): the except branch
StreamFails ==
    /\ sub_pc = "consuming"
    /\ sub_pc' = (IF running THEN "sleeping" ELSE "returned")
    /\ sub_frames' = (IF running THEN sub_frames ELSE 0)
    /\ sync_log' = Log("drop", "failed")
    /\ UNCHANGED <<diskVars, configVars, streamerVars, published, setupVars,
                   remote_states, local_state, current_position_file, last_published,
                   running, rewriteVars, codecVars, textVars, reaperVars, cleanerVars, uploaderVars>>

\* iter_lines is exhausted (the daemon closed the response): the loop ends,
\* subscribe_to_topic returns through every frame, run returns
StreamEnds ==
    /\ sub_pc = "consuming"
    /\ sub_pc' = "returned"
    /\ sub_frames' = 0
    /\ sync_log' = Log("drop", "ended")
    /\ UNCHANGED <<diskVars, configVars, streamerVars, published, setupVars,
                   remote_states, local_state, current_position_file, last_published,
                   running, rewriteVars, codecVars, textVars, reaperVars, cleanerVars, uploaderVars>>

\* the except branch after time.sleep(5): self.subscribe_to_topic() in a new
\* frame, or RecursionError, which no frame catches (each is in its except
\* branch) and run does not catch either
Resubscribe ==
    /\ sub_pc = "sleeping"
    /\ IF sub_frames < RecursionLimit
       THEN /\ sub_pc' = "subscribing"
            /\ sub_frames' = sub_frames + 1
            /\ sync_log' = Log("retry", "called")
       ELSE /\ sub_pc' = "crashed"
            /\ sub_frames' = 0
            /\ sync_log' = Log("retry", "RecursionError")
    /\ UNCHANGED <<diskVars, configVars, streamerVars, published, setupVars,
                   remote_states, local_state, current_position_file, last_published,
                   running, rewriteVars, codecVars, textVars, reaperVars, cleanerVars, uploaderVars>>

\* run: KeyboardInterrupt leaves subscribe_to_topic and sets running to False
KeyboardInterrupt ==
    /\ sub_pc \in {"subscribing", "consuming", "sleeping"}
    /\ running' = FALSE
    /\ sub_pc' = "returned"
    /\ sub_frames' = 0
    /\ sync_log' = Log("interrupt", "nothing")
    /\ UNCHANGED <<diskVars, configVars, streamerVars, published, setupVars,
                   remote_states, local_state, current_position_file, last_published,
                   rewriteVars, codecVars, textVars, reaperVars, cleanerVars, uploaderVars>>

SubscriberNext ==
    \/ SubscribeRequest
    \/ ReceiveLine
    \/ StreamFails
    \/ StreamEnds
    \/ Resubscribe
    \/ KeyboardInterrupt

\* the subscriber before run()
SubscriberIdle ==
    /\ running = TRUE
    /\ sub_pc = "idle"
    /\ sub_frames = 0

\* ------------------------------- state-sync.py: the rewrite of the state file

\* sync_state for a decoded message, up to open(self.state_file, 'w'): the
\* file is truncated, or open raises
OpenStateFile ==
    /\ writing = None
    /\ \E state \in PeerStates :
         LET data == [state |-> state, timestamp |-> state.timestamp,
                      received_at |-> now]
             latest_state == sync_state(remote_states', now)
         IN
         /\ remote_states' = Put(remote_states, state.node_id, data)
         /\ IF latest_state = None
            THEN /\ UNCHANGED <<current_position_file, writing>>
                 /\ sync_log' = Log("update", "nothing")
            ELSE \E opened \in BOOLEAN :
                   IF opened
                   THEN /\ current_position_file' = Corrupt
                        /\ writing' = [state |-> latest_state, stage |-> "open"]
                        /\ sync_log' = Log("update", "opened")
                   ELSE /\ UNCHANGED <<current_position_file, writing>>
                        /\ sync_log' = Log("update", "error")
    /\ UNCHANGED <<diskVars, configVars, streamerVars, published, setupVars,
                   local_state, last_published, subVars, publisher_read, codecVars, textVars, reaperVars,
                   cleanerVars, uploaderVars>>

\* sync_state: json.dump and the close of the file, or an exception that
\* leaves the truncated file
DumpStateFile ==
    /\ writing # None
    /\ writing.stage = "open"
    /\ \E dumped \in BOOLEAN :
         IF dumped
         THEN /\ current_position_file' = PositionDoc(writing.state)
              /\ writing' = [writing EXCEPT !.stage = "closed"]
              /\ sync_log' = Log("update", "dumped")
         ELSE /\ writing' = None
              /\ sync_log' = Log("update", "error")
              /\ UNCHANGED current_position_file
    /\ UNCHANGED <<diskVars, configVars, streamerVars, published, setupVars,
                   remote_states, local_state, last_published, subVars, publisher_read,
                   codecVars, textVars, reaperVars, cleanerVars, uploaderVars>>

\* sync_state: self.local_state = latest_state
AdoptState ==
    /\ writing # None
    /\ writing.stage = "closed"
    /\ local_state' = writing.state
    /\ writing' = None
    /\ sync_log' = Log("update", "written")
    /\ UNCHANGED <<diskVars, configVars, streamerVars, published, setupVars,
                   remote_states, current_position_file, last_published, subVars,
                   publisher_read, codecVars, textVars, reaperVars, cleanerVars, uploaderVars>>

\* publish_local_state, lines 141-143: nothing is read when the file does not
\* exist; else the content of the file as it is on disk at that moment
ReadStateFile(file) == IF file = Absent THEN None ELSE file

\* one cycle of publish_local_state on the publisher's thread, with what its
\* read returned
PublisherCycle ==
    /\ publish_cycle
    /\ publisher_read' = ReadStateFile(current_position_file)
    /\ UNCHANGED <<subVars, writing, codecVars, textVars, reaperVars, cleanerVars, uploaderVars>>

RewriteNext ==
    \/ OpenStateFile
    \/ DumpStateFile
    \/ AdoptState
    \/ PublisherCycle

RewriteIdle ==
    /\ writing = None
    /\ publisher_read = None

\* ------------------------------------------------------ the multibase codec

MaxText == 3   \* code points in a text handed to the codec

\* the code points of the texts: A, {, e-acute, the euro sign (1, 1, 2 and 3
\* bytes in UTF-8)
CodePoints == {65, 123, 233, 8364}

\* what stands for a text not yet computed, for a decoder that raised and for
\* a data field that was skipped (no byte or code point is negative)
NotYet      == <<-1>>
DecodeError == <<-2>>
NoPrefix    == <<-3>>

Texts == UNION {[1..n -> CodePoints] : n \in 0..MaxText}

\* str.encode(): the UTF-8 bytes of a code point below 65536
Utf8Bytes(cp) ==
    IF cp < 128 THEN <<cp>>
    ELSE IF cp < 2048 THEN <<192 + (cp \div 64), 128 + (cp % 64)>>
    ELSE <<224 + (cp \div 4096), 128 + ((cp \div 64) % 64), 128 + (cp % 64)>>

RECURSIVE Utf8Encode(_)
Utf8Encode(text) ==
    IF text = <<>> THEN <<>> ELSE Utf8Bytes(Head(text)) \o Utf8Encode(Tail(text))

\* bytes.decode('utf-8'): the code points of a byte string, or DecodeError
RECURSIVE Utf8Decode(_)
Utf8Decode(bytes) ==
    IF bytes = <<>> THEN <<>>
    ELSE LET b == Head(bytes)
             n == IF b < 128 THEN 1
                  ELSE IF b >= 194 /\ b < 224 THEN 2
                  ELSE IF b >= 224 /\ b < 240 THEN 3
                  ELSE 0
         IN
         IF n = 0 \/ Len(bytes) < n
            \/ \E k \in 2..n : bytes[k] < 128 \/ bytes[k] >= 192
         THEN DecodeError
         ELSE LET cp == IF n = 1 THEN b
                        ELSE IF n = 2 THEN ((b - 192) * 64) + (bytes[2] - 128)
                        ELSE ((b - 224) * 4096) + ((bytes[2] - 128) * 64) + (bytes[3] - 128)
                  rest == Utf8Decode(SubSeq(bytes, n + 1, Len(bytes)))
              IN
              IF rest = DecodeError \/ (n = 2 /\ cp < 128) \/ (n = 3 /\ cp < 2048)
              THEN DecodeError
              ELSE <<cp>> \o rest

\* a character of the url-safe base64 alphabet is its index 0..63 (A-Z, a-z,
\* 0-9, - and _); Pad is the character =; the letter u has index 46
Pad == 64
PrefixU == 46

\* base64.urlsafe_b64encode: three bytes give four characters, the last group
\* is padded
RECURSIVE B64Encode(_)
B64Encode(bytes) ==
    IF bytes = <<>> THEN <<>>
    ELSE IF Len(bytes) = 1
    THEN <<bytes[1] \div 4, (bytes[1] % 4) * 16, Pad, Pad>>
    ELSE IF Len(bytes) = 2
    THEN <<bytes[1] \div 4, ((bytes[1] % 4) * 16) + (bytes[2] \div 16),
           (bytes[2] % 16) * 4, Pad>>
    ELSE <<bytes[1] \div 4, ((bytes[1] % 4) * 16) + (bytes[2] \div 16),
           ((bytes[2] % 16) * 4) + (bytes[3] \div 64), bytes[3] % 64>>
         \o B64Encode(SubSeq(bytes, 4, Len(bytes)))

\* str.rstrip('=')
RECURSIVE RStripPad(_)
RStripPad(chars) ==
    IF chars # <<>> /\ chars[Len(chars)] = Pad
    THEN RStripPad(SubSeq(chars, 1, Len(chars) - 1))
    ELSE chars

\* encode_topic_multibase
encode_topic_multibase(text) == <<PrefixU>> \o RStripPad(B64Encode(Utf8Encode(text)))

\* base64.urlsafe_b64decode (binascii.a2b_base64, not strict) from character i
\* on: quad_pos characters of the current group are read, leftchar holds
\* their bits not yet written, pads counts the = seen since the last
\* character of the alphabet; a character outside the alphabet is skipped
RECURSIVE B64Decode(_, _, _, _, _, _)
B64Decode(chars, i, quad_pos, leftchar, pads, out) ==
    IF i > Len(chars)
    THEN IF quad_pos # 0 THEN DecodeError ELSE out
    ELSE LET c == chars[i] IN
         IF c = Pad
         THEN IF quad_pos >= 2 /\ quad_pos + pads + 1 >= 4
              THEN out
              ELSE B64Decode(chars, i + 1, quad_pos, leftchar,
                             IF quad_pos >= 2 THEN pads + 1 ELSE pads, out)
         ELSE IF c > Pad
         THEN B64Decode(chars, i + 1, quad_pos, leftchar, pads, out)
         ELSE CASE quad_pos = 0 -> B64Decode(chars, i + 1, 1, c, 0, out)
                [] quad_pos = 1 ->
                     B64Decode(chars, i + 1, 2, c % 16, 0,
                               Append(out, (leftchar * 4) + (c \div 16)))
                [] quad_pos = 2 ->
                     B64Decode(chars, i + 1, 3, c % 4, 0,
                               Append(out, (leftchar * 16) + (c \div 4)))
                [] quad_pos = 3 ->
                     B64Decode(chars, i + 1, 0, 0, 0, Append(out, (leftchar * 64) + c))

\* the subscriber decoding without the padding appended
Padded_none(chars) == chars

\* subscribe_to_topic, line 74: data_base64 + '=='
Padded(chars) == chars \o <<Pad, Pad>>

\* subscribe_to_topic, lines 72-75: the text of a data field, NoPrefix when
\* it does not start with u, DecodeError when a decoder raises
decode_data(data) ==
    IF data = <<>> \/ Head(data) # PrefixU THEN NoPrefix
    ELSE LET data_bytes == B64Decode(Padded(Tail(data)), 1, 0, 0, 0, <<>>) IN
         IF data_bytes = DecodeError THEN DecodeError ELSE Utf8Decode(data_bytes)

\* encode_topic_multibase applied to the text in hand
EncodeTopic ==
    /\ data_multibase = NotYet
    /\ data_multibase' = encode_topic_multibase(topic)
    /\ UNCHANGED <<diskVars, configVars, streamerVars, published, setupVars, syncVars,
                   subVars, rewriteVars, topic, data_text, textVars, reaperVars, cleanerVars,
                   uploaderVars>>

\* the subscriber's decoding applied to the encoded text
DecodeData ==
    /\ data_multibase # NotYet
    /\ data_text = NotYet
    /\ data_text' = decode_data(data_multibase)
    /\ UNCHANGED <<diskVars, configVars, streamerVars, published, setupVars, syncVars,
                   subVars, rewriteVars, topic, data_multibase, textVars, reaperVars, cleanerVars,
                   uploaderVars>>

CodecNext == EncodeTopic \/ DecodeData

CodecIdle ==
    /\ topic = <<>>
    /\ data_multibase = NotYet
    /\ data_text = NotYet

\* ------------------------------- streamer.py: the text of the media playlist

MaxWindow == 3   \* segments of the window handed to generate_hls_playlist

\* the value before the call, and the None returned for an empty window
NoText   == <<>>
NoneText == <<[kind |-> "none"]>>

Newline == [kind |-> "newline"]

\* '\n'.join(lines)
RECURSIVE Join(_)
Join(lines) ==
    IF Len(lines) <= 1 THEN lines
    ELSE <<Head(lines), Newline>> \o Join(Tail(lines))

\* build_playlist's return value, line 314: '\n'.join(playlist_lines) + '\n'
playlist_text(lines) == Join(lines) \o <<Newline>>

\* for line in f: the text cut after every newline, line being the part read
\* so far
RECURSIVE FileLines(_, _)
FileLines(text, line) ==
    IF text = <<>> THEN (IF line = <<>> THEN <<>> ELSE <<line>>)
    ELSE IF Head(text).kind = "newline"
         THEN <<Append(line, Head(text))>> \o FileLines(Tail(text), <<>>)
         ELSE FileLines(Tail(text), Append(line, Head(text)))

\* line.strip(): the whitespace at both ends removed
RECURSIVE Strip(_)
Strip(line) ==
    IF line = <<>> THEN <<>>
    ELSE IF Head(line).kind = "newline" THEN Strip(Tail(line))
    ELSE IF line[Len(line)].kind = "newline" THEN Strip(SubSeq(line, 1, Len(line) - 1))
    ELSE line

\* load_playlist keeping every line that is not empty
RECURSIVE LoadPlaylistText_all(_)
LoadPlaylistText_all(file_lines) ==
    IF file_lines = <<>> THEN <<>>
    ELSE LET line == Strip(Head(file_lines)) IN
         (IF line # <<>> THEN <<line[1].text>> ELSE <<>>)
         \o LoadPlaylistText_all(Tail(file_lines))

\* load_playlist over the lines read from the file: a stripped line that
\* starts with /ipfs/ gives its CID
RECURSIVE LoadPlaylistText(_)
LoadPlaylistText(file_lines) ==
    IF file_lines = <<>> THEN <<>>
    ELSE LET line == Strip(Head(file_lines)) IN
         (IF line # <<>> /\ line[1].kind = "uri" THEN <<line[1].text>> ELSE <<>>)
         \o LoadPlaylistText(Tail(file_lines))

\* the segment times counted up from the first segment
SegmentTime_ascending(current_time, n, i) == current_time - i * 6 * 1000000

\* current_time - timedelta(seconds=(len(segments) - i - 1) * 6), in
\* microseconds, i counted from 0
SegmentTime(current_time, n, i) == current_time - (n - i - 1) * 6 * 1000000

\* strftime("%Y-%m-%dT%H:%M:%S.%f")[:-3] + "Z": the instant written down to
\* the millisecond, the last three digits of the microseconds cut off
FormatTime(t) == t \div 1000

DateTimeLine(t) == [kind |-> "program_date_time", text |-> FormatTime(t)]

\* the three lines appended for each segment from the i-th on
RECURSIVE SegmentGroups(_, _, _)
SegmentGroups(segments, current_time, i) ==
    IF i >= Len(segments) THEN <<>>
    ELSE <<DateTimeLine(SegmentTime(current_time, Len(segments), i)),
           TagLine("#EXTINF:6.0,"),
           UriLine(segments[i + 1])>>
         \o SegmentGroups(segments, current_time, i + 1)

\* generate_hls_playlist as text: the lines joined, a newline after the last
hls_playlist_text(segments, seq, current_time) ==
    IF segments = <<>> THEN NoneText
    ELSE Join(<<TagLine("#EXTM3U"),
                TagLine("#EXT-X-VERSION:3"),
                TagLine("#EXT-X-TARGETDURATION:7"),
                [kind |-> "media_sequence", text |-> seq]>>
              \o SegmentGroups(segments, current_time, 0))
         \o <<Newline>>

\* one call of generate_hls_playlist
GenerateHlsPlaylist ==
    /\ hls_text = NoText
    /\ hls_text' = hls_playlist_text(hls_segments, hls_sequence, hls_time)
    /\ UNCHANGED <<diskVars, configVars, streamerVars, published, setupVars, syncVars,
                   subVars, rewriteVars, codecVars, hls_segments, hls_sequence, hls_time,
                   reaperVars, cleanerVars, uploaderVars>>

TextNext == GenerateHlsPlaylist

TextIdle ==
    /\ hls_segments = <<>>
    /\ hls_sequence = 0
    /\ hls_time = 0
    /\ hls_text = NoText

\* ------------------------------------ ipfs_segments.json and its two writers

MAX_SEGMENTS  == 2    \* the environment's MAX_SEGMENTS (50 when unset)
MaxStored     == 3    \* entries of ipfs_segments.json when the cleanup service starts
MaxFiles      == 4    \* segment files the encoder closes in HLS_DIR
MaxCleanupCycles == 21   \* cleanup cycles of one run of the service

SEGMENT_RETENTION_TIME == 300
gc_interval == 10

\* a segment record (size and node_id, which no decision reads, left out); the
\* content-addressed store gives a file's content one CID
SegmentRecord(filename, t) == [filename |-> filename, cid |-> <<"cid", filename>>,
                               timestamp |-> t]

\* ipfs_segments.json as json.dump writes it: the bucket of quality "stream"
\* (the only quality extract_quality accepts), its keys in insertion order
SegmentsDoc(bucket) == [kind |-> "json", stream |-> bucket]

\* load_segment_state, load_state: a missing or unreadable document is empty
load_segment_state(file) == IF file.kind = "json" THEN file.stream ELSE <<>>

Filenames(bucket) == {bucket[i].filename : i \in 1..Len(bucket)}

\* ----------------------------------------------- cleanup-old-segments.py

\* sorted(segments.items(), key=timestamp): stable, ties keep dict order
RECURSIVE SortByTimestamp(_)
SortByTimestamp(bucket) ==
    IF bucket = <<>> THEN <<>>
    ELSE LET sorted == SortByTimestamp(SubSeq(bucket, 1, Len(bucket) - 1))
             e == bucket[Len(bucket)]
             k == Cardinality({i \in 1..Len(sorted) : sorted[i].timestamp <= e.timestamp})
         IN SubSeq(sorted, 1, k) \o <<e>> \o SubSeq(sorted, k + 1, Len(sorted))

\* the age test with the boundary included
Expired_inclusive(seg, current_time) ==
    current_time - seg.timestamp >= SEGMENT_RETENTION_TIME

\* cleanup_old_segments, lines 143-145: age > SEGMENT_RETENTION_TIME
Expired(seg, current_time) == current_time - seg.timestamp > SEGMENT_RETENTION_TIME

\* lines 141-146: the entries removed for their age, in sorted order
RECURSIVE ByAge(_, _)
ByAge(sorted, current_time) ==
    IF sorted = <<>> THEN <<>>
    ELSE (IF Expired(Head(sorted), current_time)
          THEN <<[seg |-> Head(sorted), reason |-> "age"]>> ELSE <<>>)
         \o ByAge(Tail(sorted), current_time)

\* the excess taken from the newest end
Excess_newest(sorted) ==
    IF Len(sorted) > MAX_SEGMENTS
    THEN SubSeq(sorted, MAX_SEGMENTS + 1, Len(sorted)) ELSE <<>>

\* lines 149-151: sorted_segments[:excess_count]
Excess(sorted) ==
    IF Len(sorted) > MAX_SEGMENTS
    THEN SubSeq(sorted, 1, Len(sorted) - MAX_SEGMENTS) ELSE <<>>

\* lines 151-153: the excess entries not already listed for their age
RECURSIVE ByCount(_, _)
ByCount(excess, listed) ==
    IF excess = <<>> THEN <<>>
    ELSE (IF \E i \in 1..Len(listed) : listed[i] = [seg |-> Head(excess), reason |-> "age"]
          THEN <<>> ELSE <<[seg |-> Head(excess), reason |-> "count"]>>)
         \o ByCount(Tail(excess), listed)

\* lines 133-153: segments_to_remove of one bucket
segments_to_remove(bucket, current_time) ==
    LET sorted == SortByTimestamp(bucket)
        listed == ByAge(sorted, current_time)
    IN listed \o ByCount(Excess(sorted), listed)

\* lines 156-170: the entries the removal loop deletes from the bucket, given
\* the names listed and those whose unpin_cid returned True (every record has
\* a CID)
Removable(names, unpinned) == names

\* del segments[filename] for every name in names
RECURSIVE DeleteFrom(_, _)
DeleteFrom(bucket, names) ==
    IF bucket = <<>> THEN <<>>
    ELSE (IF Head(bucket).filename \in names THEN <<>> ELSE <<Head(bucket)>>)
         \o DeleteFrom(Tail(bucket), names)

\* main with the counter never reset
NextGcCounter_noreset(counter) == counter + 1

\* main, lines 269-273: gc_counter after the cycle
NextGcCounter(counter) == IF counter + 1 >= gc_interval THEN 0 ELSE counter + 1

\* one iteration of main's loop: cleanup_old_segments (each unpin answers 200
\* or not, an existing local file is removed, the document is saved when an
\* unpin succeeded), then garbage_collect and get_storage_stats when the
\* counter reaches gc_interval
CleanupCycle ==
    /\ cleanup_cycles < MaxCleanupCycles
    /\ cleanup_cycles' = cleanup_cycles + 1
    /\ LET bucket == load_segment_state(segment_state_file)
           listed == segments_to_remove(bucket, now)
           names  == {listed[i].seg.filename : i \in 1..Len(listed)}
           gc     == gc_counter + 1 >= gc_interval
       IN
       \E unpinned \in SUBSET names :
       \E outcome \in (IF unpinned = {} THEN {"ok"} ELSE WriteOutcomes),
          gc_ok \in (IF gc THEN BOOLEAN ELSE {TRUE}) :
         LET total_removed == Cardinality(unpinned)
             remaining == DeleteFrom(bucket, Removable(names, unpinned))
         IN
         /\ hls_files' = hls_files \ names
         /\ segment_state_file' =
              IF total_removed = 0 \/ outcome = "unchanged" THEN segment_state_file
              ELSE IF outcome = "ok" THEN SegmentsDoc(remaining)
              ELSE Corrupt
         /\ gc_counter' = NextGcCounter(gc_counter)
         /\ cleaner_log' = [listed |-> listed, unpinned |-> unpinned,
                            saved |-> IF total_removed = 0 THEN "none" ELSE outcome,
                            calls |-> <<"cleanup_old_segments">>
                                      \o (IF gc_counter' = 0
                                          THEN <<"garbage_collect", "get_storage_stats">>
                                          ELSE <<>>),
                            gc_ok |-> gc_ok]
    /\ UNCHANGED <<diskVars, configVars, streamerVars, published, setupVars, syncVars,
                   subVars, rewriteVars, codecVars, textVars, reaperVars, uploaderVars>>

CleanerNext == CleanupCycle

NoCycle == [listed |-> <<>>, unpinned |-> {}, saved |-> "none", calls |-> <<>>,
            gc_ok |-> TRUE]

CleanerIdle ==
    /\ segment_state_file = Absent
    /\ hls_files = {}
    /\ gc_counter = 0
    /\ cleanup_cycles = 0
    /\ cleaner_log = NoCycle

\* ------------------------------------------------------------ hls-to-ipfs.py

\* what stands for SegmentState.segments while the uploader is not running
Unloaded == <<[filename |-> 0]>>

\* self.segments[quality][filename] = record: a key already present keeps its
\* place, a new key goes last
RECURSIVE PutSegment(_, _)
PutSegment(bucket, record) ==
    IF bucket = <<>> THEN <<record>>
    ELSE IF Head(bucket).filename = record.filename
         THEN <<record>> \o Tail(bucket)
         ELSE <<Head(bucket)>> \o PutSegment(Tail(bucket), record)

\* the trimming keeping the first MAX_SEGMENTS keys
Trim_first(bucket) ==
    IF Len(bucket) > MAX_SEGMENTS THEN SubSeq(bucket, 1, MAX_SEGMENTS) ELSE bucket

\* add_segment, lines 77-81: the keys [:-MAX_SEGMENTS] are popped
Trim(bucket) ==
    IF Len(bucket) > MAX_SEGMENTS
    THEN SubSeq(bucket, Len(bucket) - MAX_SEGMENTS + 1, Len(bucket)) ELSE bucket

\* add_segment, lines 66-81: the bucket after the call
add_segment(bucket, filename, t) == Trim(PutSegment(bucket, SegmentRecord(filename, t)))

\* main: SegmentState() loads the document
UploaderStart ==
    /\ segment_map = Unloaded
    /\ segment_map' = load_segment_state(segment_state_file)
    /\ uploader_log' = [op |-> "start", filename |-> 0, saved |-> "none", dropped |-> 0]
    /\ UNCHANGED <<diskVars, configVars, streamerVars, published, setupVars, syncVars,
                   subVars, rewriteVars, codecVars, textVars, reaperVars, cleanerVars>>

\* on_closed for a segment file of HLS_DIR (process_existing_segments makes
\* the same calls for the files found at startup): the upload returns a CID or
\* fails; add_segment, whose save_state writes the document, fails before
\* opening it or after truncating it; dropped counts the keys it popped
OnClosed ==
    /\ segment_map # Unloaded
    /\ \E filename \in hls_files, uploaded \in BOOLEAN, outcome \in WriteOutcomes :
         IF uploaded
         THEN /\ segment_map' = add_segment(segment_map, filename, now)
              /\ segment_state_file' =
                   CASE outcome = "ok" -> SegmentsDoc(segment_map')
                     [] outcome = "unchanged" -> segment_state_file
                     [] outcome = "truncated" -> Corrupt
              /\ uploader_log' =
                   [op |-> "add", filename |-> filename, saved |-> outcome,
                    dropped |-> Len(PutSegment(segment_map, SegmentRecord(filename, now)))
                                  - Len(segment_map')]
         ELSE /\ outcome = "ok"
              /\ uploader_log' = [op |-> "upload_failed", filename |-> filename,
                                  saved |-> "none", dropped |-> 0]
              /\ UNCHANGED <<segment_map, segment_state_file>>
    /\ UNCHANGED <<diskVars, configVars, streamerVars, published, setupVars, syncVars,
                   subVars, rewriteVars, codecVars, textVars, reaperVars, hls_files, gc_counter,
                   cleanup_cycles, cleaner_log>>

\* the uploader exits: its map is gone
UploaderStop ==
    /\ segment_map # Unloaded
    /\ segment_map' = Unloaded
    /\ uploader_log' = [op |-> "stop", filename |-> 0, saved |-> "none", dropped |-> 0]
    /\ UNCHANGED <<diskVars, configVars, streamerVars, published, setupVars, syncVars,
                   subVars, rewriteVars, codecVars, textVars, reaperVars, cleanerVars>>

UploaderNext == UploaderStart \/ OnClosed \/ UploaderStop

UploaderIdle ==
    /\ segment_map = Unloaded
    /\ uploader_log = [op |-> "stop", filename |-> 0, saved |-> "none", dropped |-> 0]

\* ------------------------------------------------------------------- system
\* the components no specification below runs
\* the source directory as one host enumerates it
SourceScanned == rglob_order = <<"x/c.aac", "y/c.aac">>

AuxIdle ==
    SubscriberIdle /\ RewriteIdle /\ CodecIdle /\ TextIdle /\ ReaperIdle /\ CleanerIdle /\ UploaderIdle

\* streaming.config.json: <<advance_every, max_segments>>
StreamingConfigs == {1, 2} \X {2, 5}

\* the streamer before it is started, under one of the configurations
StreamerStopped(configs) ==
    /\ stream_info_file = Absent
    /\ ipns_keys_file = "none"
    /\ \E c \in configs : advance_every = c[1] /\ max_segments = c[2]
    /\ pc = "stopped"
    /\ playlist_entries = <<>>
    /\ sequence_number = 0
    /\ update_counter = 0
    /\ stream_key = "none"
    /\ playlist_content = NoContent
    /\ updated = "none"
    /\ published = <<>>

StreamerIdle(configs) ==
    /\ sequence_state_file = Absent
    /\ StreamerStopped(configs)

\* the setup processor on a fresh workspace: nothing processed yet, the
\* streamer not started
SetupInit ==
    /\ StreamerIdle({<<2, 2>>})
    /\ SyncIdle
    /\ AuxIdle
    /\ SourceScanned
    /\ playlist_file = Absent
    /\ manifest_file = Absent
    /\ setup_config \in SetupConfigs
    /\ playlist_config \in PlaylistConfigs
    /\ setup_run = NoRun
    /\ setup_runs = 0
    /\ now = 0

SetupSpec == SetupInit /\ [][SetupNext]_vars

\* the setup processor run again and again over one configuration whose
\* playlist lists a name found in two subdirectories, a name found in the
\* source directory and a name found nowhere
ListedTracks == <<"c.aac", "a.mp3", "z.mp3">>

RerunInit ==
    /\ StreamerIdle({<<2, 2>>})
    /\ SyncIdle
    /\ AuxIdle
    /\ rglob_order \in RglobOrders
    /\ playlist_file = Absent
    /\ manifest_file = Absent
    /\ setup_config \in SetupConfigs
    /\ playlist_config = [tracks |-> ListedTracks]
    /\ setup_run = NoRun
    /\ setup_runs = 0
    /\ now = 0

RerunNext == SetupRun \/ SourceRestored \/ TimePasses

RerunSpec == RerunInit /\ [][RerunNext]_vars

\* build_playlist on its own: any list of up to MaxTracks processed tracks and
\* MaxJingles processed jingles of 1..MaxSegments segments each, any cycle in
\* 1..MaxCycle, jingles enabled or not
SegmentCounts(n) == UNION {[1..m -> 1..MaxSegments] : m \in 0..n}

\* the entries process_track returns for files of the given segment counts;
\* segment s of file i has the CID <<file_type, i, s>>
Processed(file_type, counts) ==
    [i \in 1..Len(counts) |->
        [filename |-> <<file_type, i>>, type |-> file_type, segment_count |-> counts[i],
         segments |-> [x \in 1..counts[i] |->
                         [filename |-> <<file_type, i, x>>, cid |-> <<file_type, i, x>>]]]]

BuildInit ==
    /\ StreamerIdle({<<2, 2>>})
    /\ SyncIdle
    /\ AuxIdle
    /\ SourceScanned
    /\ playlist_file = Absent
    /\ setup_config \in [force_rebuild : {FALSE},
                          jingles : [enabled : BOOLEAN, cycle : 1..MaxCycle],
                          audio : [segment_duration : {SegmentDuration}]]
    /\ playlist_config = [tracks |-> <<>>]
    /\ \E tc \in SegmentCounts(MaxTracks), jc \in SegmentCounts(MaxJingles) :
         manifest_file = ManifestDoc(compute_config_hash(setup_config, playlist_config),
                                     0, Processed("track", tc), Processed("jingle", jc))
    /\ setup_run = NoRun
    /\ setup_runs = 0
    /\ now = 0

\* build_playlist applied to the tracks and jingles in hand
BuildPlaylist ==
    /\ playlist_file = Absent
    /\ manifest_file.kind = "json"
    /\ playlist_file' =
         build_playlist(manifest_file.tracks, manifest_file.jingles, setup_config)
    /\ UNCHANGED <<manifest_file, sequence_state_file, stream_info_file, ipns_keys_file,
                   configVars, auxVars, syncVars, streamerVars, published, setupVars>>

BuildNext == BuildPlaylist

BuildSpec == BuildInit /\ [][BuildNext]_vars

\* the setup processor builds playlist.m3u, the streamer reads it: __init__'s
\* load_playlist over the text build_playlist returned and run wrote
ReadPlaylist ==
    /\ pc = "stopped"
    /\ playlist_file.kind = "m3u"
    /\ playlist_entries' =
          LoadPlaylistText(FileLines(playlist_text(playlist_file.lines), <<>>))
    /\ pc' = "loaded"
    /\ UNCHANGED <<diskVars, configVars, auxVars, syncVars, sequence_number,
                   update_counter, stream_key, playlist_content, updated, published,
                   setupVars>>

LoadNext == BuildPlaylist \/ ReadPlaylist

LoadSpec == BuildInit /\ [][LoadNext]_vars

\* one streaming node whose workspace the setup processor has processed; the
\* setup processor is seen through what a completed rebuild leaves on disk
\* after the operator has switched the jingles on or off
Reconfigure ==
    /\ setup_runs <= MaxReconfigs
    /\ setup_runs' = setup_runs + 1
    /\ LET sc == [setup_config EXCEPT !.jingles.enabled = ~@] IN
       /\ setup_config' = sc
       /\ needs_rebuild(sc, playlist_config, manifest_file)
       /\ \E outcome \in JingleOutcomes(get_jingle_files(sc)) :
            LET r == Rebuilt(sc, playlist_config, outcome) IN
            /\ playlist_file' = r.playlist
            /\ manifest_file' = r.manifest
    /\ UNCHANGED <<sequence_state_file, stream_info_file, ipns_keys_file, configVars, auxVars, syncVars,
                   streamerVars, published, playlist_config, rglob_order, setup_run, now>>

\* the workspace after a completed setup run over the whole music directory,
\* the other services at rest
Prepared ==
    /\ SyncIdle
    /\ AuxIdle
    /\ SourceScanned
    /\ setup_config = [force_rebuild |-> FALSE,
                       jingles |-> [enabled |-> FALSE, cycle |-> 1],
                       audio |-> [segment_duration |-> SegmentDuration]]
    /\ playlist_config = [tracks |-> <<>>]
    /\ LET tracks == ProcessAll(get_music_files(playlist_config), "track") IN
       /\ playlist_file = build_playlist(tracks, <<>>, setup_config)
       /\ manifest_file =
            ManifestDoc(compute_config_hash(setup_config, playlist_config), 0,
                        tracks, <<>>)
       /\ setup_run = [exit |-> "ok", cache_hit |-> FALSE,
                       ffmpeg_calls |-> Len(tracks), ipfs_adds |-> CountSegments(tracks),
                       skipped |-> {}]
    /\ setup_runs = 1
    /\ now = 0

Init ==
    /\ StreamerIdle(StreamingConfigs)
    /\ Prepared

Next == StreamerNext \/ Reconfigure

Spec == Init /\ [][Next]_vars

\* a node taken back into service: sequence_state.json holds the sequence an
\* earlier run of the streamer saved
ResumeInit ==
    /\ StreamerStopped(StreamingConfigs)
    /\ sequence_state_file \in {Absent} \cup {SeqDoc(s) : s \in 0..MaxSequence}
    /\ Prepared

ResumeSpec == ResumeInit /\ [][StreamerNext]_vars

\* the streamer stopped and started again, every read and write of
\* sequence_state.json succeeding
RestartNext ==
    \/ StartStreamer({TRUE})
    \/ StreamerStop
    \/ UpdateStreamUpload
    \/ UpdateStreamPublish
    \/ UpdateStreamInfo
    \/ AdvanceWindow({"ok"})

RestartSpec == ResumeInit /\ [][RestartNext]_vars

\* the streamer started once and left running: main's loop calls
\* update_stream again after every sleep, so a step of the tick that can be
\* taken is taken
LoopNext ==
    \/ StreamerStart
    \/ UpdateStreamUpload
    \/ UpdateStreamPublish
    \/ UpdateStreamInfo
    \/ advance_window

LoopSpec ==
    /\ ResumeInit
    /\ [][LoopNext]_vars
    /\ WF_vars(StreamerStart)
    /\ WF_vars(UpdateStreamUpload)
    /\ WF_vars(UpdateStreamPublish)
    /\ WF_vars(UpdateStreamInfo)
    /\ WF_vars(advance_window)

\* the state synchronizer of a node, on its own
SyncInit ==
    /\ StreamerIdle({<<2, 2>>})
    /\ SyncIdle
    /\ AuxIdle
    /\ SourceScanned
    /\ playlist_file = Absent
    /\ manifest_file = Absent
    /\ setup_config = [force_rebuild |-> FALSE,
                       jingles |-> [enabled |-> FALSE, cycle |-> 1],
                       audio |-> [segment_duration |-> SegmentDuration]]
    /\ playlist_config = [tracks |-> <<>>]
    /\ setup_run = NoRun
    /\ setup_runs = 0
    /\ now = 100 * MaxTimestamp

SyncSpec == SyncInit /\ [][SyncNext]_vars

PublisherSpec == SyncInit /\ [][PublisherNext]_vars

ReaperSpec == SyncInit /\ [][ReaperNext]_vars

\* a node on which neither the streamer nor the setup processor has run
NodeIdle ==
    /\ StreamerIdle({<<2, 2>>})
    /\ playlist_file = Absent
    /\ manifest_file = Absent
    /\ setup_config = [force_rebuild |-> FALSE,
                       jingles |-> [enabled |-> FALSE, cycle |-> 1],
                       audio |-> [segment_duration |-> SegmentDuration]]
    /\ playlist_config = [tracks |-> <<>>]
    /\ setup_run = NoRun
    /\ setup_runs = 0
    /\ SourceScanned

\* the subscriber's connection to the topic, from the first call of
\* subscribe_to_topic in run
SubscriberInit ==
    /\ NodeIdle
    /\ SyncIdle
    /\ now = 100 * MaxTimestamp
    /\ running = TRUE
    /\ sub_pc = "subscribing"
    /\ sub_frames = 1
    /\ RewriteIdle /\ CodecIdle /\ CleanerIdle /\ UploaderIdle /\ TextIdle /\ ReaperIdle

SubscriberSpec == SubscriberInit /\ [][SubscriberNext]_vars

\* the subscriber's thread keeps running: a request or a retry that is due
\* is made; what the stream delivers, and when it drops, is up to the daemon
SubscriberLiveSpec ==
    SubscriberSpec /\ WF_vars(SubscribeRequest) /\ WF_vars(Resubscribe)

\* the subscriber's write of the state file, step by step, and the publisher
RewriteInit ==
    /\ NodeIdle
    /\ SyncIdle
    /\ now = 100 * MaxTimestamp
    /\ SubscriberIdle /\ RewriteIdle /\ CodecIdle /\ CleanerIdle /\ UploaderIdle /\ TextIdle /\ ReaperIdle

RewriteSpec == RewriteInit /\ [][RewriteNext]_vars

\* the codec on its own: any text of up to MaxText code points
CodecInit ==
    /\ NodeIdle
    /\ SyncIdle
    /\ now = 0
    /\ topic \in Texts
    /\ data_multibase = NotYet
    /\ data_text = NotYet
    /\ SubscriberIdle /\ RewriteIdle /\ CleanerIdle /\ UploaderIdle /\ TextIdle /\ ReaperIdle

CodecSpec == CodecInit /\ [][CodecNext]_vars

\* generate_hls_playlist over the windows, sequence numbers and instants
WindowCids == {"Qa", "Qb"}
Windows  == UNION {[1..n -> WindowCids] : n \in 0..MaxWindow}
Instants == {18000000, 18000999, 18001000, 12345678}

TextInit ==
    /\ NodeIdle
    /\ SyncIdle
    /\ now = 0
    /\ hls_segments \in Windows
    /\ hls_sequence \in 0..MaxSequence
    /\ hls_time \in Instants
    /\ hls_text = NoText
    /\ SubscriberIdle /\ RewriteIdle /\ CodecIdle /\ ReaperIdle /\ CleanerIdle /\ UploaderIdle

TextSpec == TextInit /\ [][TextNext]_vars

\* the timestamps of the stored segments: older than the retention time by a
\* second, as old as the retention time, and new
SegmentTimes == {0, 1, SEGMENT_RETENTION_TIME + 1}

\* the documents the uploader may have left: up to MaxStored records, the
\* i-th inserted named i
StoredBuckets ==
    UNION {{[i \in 1..n |-> SegmentRecord(i, ts[i])] : ts \in [1..n -> SegmentTimes]}
           : n \in 0..MaxStored}

\* the cleanup service on its own, started over a document of the uploader
CleanerInit ==
    /\ NodeIdle
    /\ SyncIdle
    /\ now = SEGMENT_RETENTION_TIME + 1
    /\ \E bucket \in StoredBuckets :
         /\ segment_state_file = SegmentsDoc(bucket)
         /\ hls_files = Filenames(bucket)
    /\ gc_counter = 0
    /\ cleanup_cycles = 0
    /\ cleaner_log = NoCycle
    /\ SubscriberIdle /\ RewriteIdle /\ CodecIdle /\ UploaderIdle /\ TextIdle /\ ReaperIdle

CleanerSpec == CleanerInit /\ [][CleanerNext]_vars

\* the uploader on its own, over the files the encoder writes
UploaderInit ==
    /\ NodeIdle
    /\ SyncIdle
    /\ now = 0
    /\ segment_state_file = Absent
    /\ hls_files = 1..MaxFiles
    /\ gc_counter = 0
    /\ cleanup_cycles = 0
    /\ cleaner_log = NoCycle
    /\ UploaderIdle
    /\ SubscriberIdle /\ RewriteIdle /\ CodecIdle /\ TextIdle /\ ReaperIdle

UploaderSpec == UploaderInit /\ [][UploaderNext]_vars

\* the uploader and the cleanup service running side by side over
\* ipfs_segments.json, the encoder having written one more segment file
StoreInit ==
    /\ NodeIdle
    /\ SyncIdle
    /\ now = SEGMENT_RETENTION_TIME + 1
    /\ \E bucket \in StoredBuckets :
         /\ segment_state_file = SegmentsDoc(bucket)
         /\ hls_files = Filenames(bucket) \cup {MaxStored + 1}
    /\ gc_counter = 0
    /\ cleanup_cycles = 0
    /\ cleaner_log = NoCycle
    /\ UploaderIdle
    /\ SubscriberIdle /\ RewriteIdle /\ CodecIdle /\ TextIdle /\ ReaperIdle

MaxStoreCycles == 2   \* cleanup cycles run beside the uploader

StoreNext ==
    \/ UploaderStart
    \/ OnClosed
    \/ cleanup_cycles < MaxStoreCycles /\ CleanupCycle

StoreSpec == StoreInit /\ [][StoreNext]_vars

\* ------------------------------------------------------------------- claims
MediaSequences == [k \in 1..Len(published) |-> published[k].playlist.media_sequence]

InTick == pc \in {"uploaded", "published", "info_written"}

\* C1 (as claimed): the MEDIA-SEQUENCE of every published playlist is greater
\* than or equal to that of every playlist the node published earlier, over
\* ticks, sequence-file write and read failures and restarts
C1_MonotonicSequence ==
    \A i, j \in 1..Len(published) :
        i < j => MediaSequences[i] <= MediaSequences[j]

\* C2: the playlist built in a tick over a non-empty virtual playlist of
\* length L lists exactly max_segments URIs, the i-th (from 0) being the CID
\* at index (S + i) mod L, S being the MEDIA-SEQUENCE of that playlist
C2_WindowIdentity ==
    InTick =>
        LET L == Len(playlist_entries)
            S == playlist_content.media_sequence
        IN /\ L > 0
           /\ S = sequence_number
           /\ Len(playlist_content.uris) = max_segments
           /\ \A i \in 0..(max_segments - 1) :
                playlist_content.uris[i + 1] = playlist_entries[((S + i) % L) + 1]

\* C2 witness: a playlist built with W > L after S has wrapped around
C2_Witness ==
    /\ pc = "uploaded"
    /\ max_segments > Len(playlist_entries)
    /\ playlist_content.media_sequence >= Len(playlist_entries)

\* the first n / the last n elements of a sequence
FirstN(q, n) == SubSeq(q, 1, n)
LastN(q, n)  == SubSeq(q, Len(q) - n + 1, Len(q))

\* C3 (as claimed): whenever two consecutively published playlists carry
\* sequences S and S+1, the first W-1 URIs of the later equal, in order, the
\* last W-1 URIs of the earlier
C3_ContinuityAlways ==
    \A k \in 1..(Len(published) - 1) :
        MediaSequences[k + 1] = MediaSequences[k] + 1 =>
            FirstN(published[k + 1].playlist.uris, max_segments - 1)
                = LastN(published[k].playlist.uris, max_segments - 1)

\* C3 (amended): two consecutively published playlists that carry sequences
\* S and S+1 and were cut from the same virtual playlist overlap in W-1 URIs:
\* the first W-1 of the later are the last W-1 of the earlier, in order
C3_WindowContinuity ==
    \A k \in 1..(Len(published) - 1) :
        (/\ MediaSequences[k + 1] = MediaSequences[k] + 1
         /\ published[k + 1].entries = published[k].entries) =>
            FirstN(published[k + 1].playlist.uris, max_segments - 1)
                = LastN(published[k].playlist.uris, max_segments - 1)

\* C3 witness: the window slid by one over the same virtual playlist, and wrapped
C3_Witness ==
    \E k \in 1..(Len(published) - 1) :
        /\ MediaSequences[k + 1] = MediaSequences[k] + 1
        /\ published[k + 1].entries = published[k].entries
        /\ MediaSequences[k + 1] + max_segments > Len(published[k].entries)

\* the step in which update_stream returns True: advance_window ran
TickSucceeds == pc = "info_written" /\ pc' = "loop"

\* C4 (as claimed): within a run U counts the successful ticks since the last
\* advance; a successful tick that brings U to A or more increments S by one,
\* persists it and resets U; S changes at no other time
C4_AdvanceRule ==
    [][ /\ TickSucceeds =>
             IF update_counter + 1 >= advance_every
             THEN /\ sequence_number' = sequence_number + 1
                  /\ update_counter' = 0
                  /\ sequence_state_file' = SeqDoc(sequence_number')
             ELSE /\ update_counter' = update_counter + 1
                  /\ UNCHANGED <<sequence_number, sequence_state_file>>
        /\ (pc # "stopped" /\ pc' # "stopped" /\ ~TickSucceeds) =>
             UNCHANGED <<sequence_number, update_counter>>
      ]_vars

\* the step in which update_stream returns False after a failed upload or a
\* failed publish
TickFails ==
    /\ stream_key # "none"
    /\ pc \in {"loop", "uploaded"}
    /\ pc' = "loop"
    /\ updated' = "False"

\* C5: a tick whose upload or publish fails leaves S, U, sequence_state.json
\* and stream_info.json unchanged
C5_FailedTickFrame ==
    [][ TickFails => UNCHANGED <<sequence_number, update_counter,
                                 sequence_state_file, stream_info_file>> ]_vars

\* C5 witness: a tick failed after a successful refresh of the same run
C5_Witness ==
    /\ pc = "loop"
    /\ stream_key # "none"
    /\ updated = "False"
    /\ update_counter = 1
    /\ stream_info_file.kind = "json"

\* C6 (as claimed): S is incremented only when the write of the new value to
\* sequence_state.json succeeded
C6_AdvanceOnlyIfSaved ==
    [][ (TickSucceeds /\ sequence_number' # sequence_number) =>
            sequence_state_file' = SeqDoc(sequence_number') ]_vars

\* C7 (as claimed): any two consecutively published playlists with the same
\* MEDIA-SEQUENCE list the same segment URIs in the same order
C7_SameSequenceAlways ==
    \A k \in 1..(Len(published) - 1) :
        MediaSequences[k + 1] = MediaSequences[k] =>
            published[k + 1].playlist.uris = published[k].playlist.uris

\* C7 (amended): two consecutively published playlists with the same
\* MEDIA-SEQUENCE that were cut from the same virtual playlist list the same
\* segment URIs in the same order
C7_SameSequenceSameUris ==
    \A k \in 1..(Len(published) - 1) :
        (/\ MediaSequences[k + 1] = MediaSequences[k]
         /\ published[k + 1].entries = published[k].entries) =>
            published[k + 1].playlist.uris = published[k].playlist.uris

\* C7 witness: a refresh without advance (U = 1 of A = 2) was published
C7_Witness ==
    \E k \in 1..(Len(published) - 1) :
        /\ MediaSequences[k + 1] = MediaSequences[k]
        /\ published[k + 1].entries = published[k].entries
        /\ advance_every = 2
        /\ pc = "published"
        /\ update_counter = 1
        /\ k + 1 = Len(published)

\* C8: every successful write of sequence_state.json stores the full counter
\* S, never S mod L
C8_FullCounterStored ==
    [][ (sequence_state_file' # sequence_state_file
         /\ sequence_state_file'.kind = "json") =>
            sequence_state_file'.sequence = sequence_number' ]_vars

\* C8 witness: S has passed the playlist length and is on disk in full
C8_Witness ==
    /\ pc = "loop"
    /\ Len(playlist_entries) > 0
    /\ sequence_number >= Len(playlist_entries)
    /\ sequence_state_file = SeqDoc(sequence_number)

\* the streamer runs without a stream key (ERROR_NO_KEY)
ErrorNoKey == pc # "stopped" /\ stream_key = "none"

\* C9: without a stream key no tick uploads or publishes, S, U and the
\* streamer's files never change, and the process never leaves that state
C9_NoKeyTerminal ==
    [][ (ErrorNoKey /\ pc' # "stopped") =>
            /\ pc' = "loop"
            /\ stream_key' = "none"
            /\ UNCHANGED <<sequence_number, update_counter, sequence_state_file,
                           stream_info_file, ipns_keys_file, playlist_content,
                           published>> ]_vars

\* C9 witness: a tick ran and returned False in that state
C9_Witness == ErrorNoKey /\ updated = "False"

\* C10: a run with force_rebuild false over a manifest whose config_hash is
\* the hash of the current configuration invokes neither the transcoder nor
\* an upload, leaves manifest.json as it is and rewrites playlist.m3u from
\* the manifest's tracks and jingles
C10_CacheHit ==
    [][ (/\ setup_runs' = setup_runs + 1
         /\ ~setup_config.force_rebuild
         /\ manifest_file.kind = "json"
         /\ manifest_file.config_hash
                = compute_config_hash(setup_config, playlist_config)) =>
            /\ setup_run'.ffmpeg_calls = 0
            /\ setup_run'.ipfs_adds = 0
            /\ setup_run'.exit = "ok"
            /\ manifest_file' = manifest_file
            /\ playlist_file' = build_playlist(manifest_file.tracks,
                                               manifest_file.jingles, setup_config)
      ]_vars

\* C10 witness: a cache hit on a manifest written at an earlier time
C10_Witness ==
    /\ setup_run.cache_hit
    /\ setup_run.exit = "ok"
    /\ manifest_file.kind = "json"
    /\ manifest_file.timestamp < now
    /\ Len(manifest_file.jingles) > 0

\* ---------------------------------------------------------- setup processor
\* the step of one run of the setup processor
SetupRunStep == setup_runs' = setup_runs + 1

\* the run rewrote manifest.json
Regenerated(run) == run.exit = "ok" /\ ~run.cache_hit

\* the hash of the current configuration is not the one in the manifest
HashDiffers(manifest) ==
    \/ manifest.kind # "json"
    \/ manifest.config_hash # compute_config_hash(setup_config, playlist_config)

Cids(item) == [x \in 1..Len(item.segments) |-> item.segments[x].cid]

\* the tracks from 0-based index t on, each track whose index is a positive
\* multiple k*(i+1) of the cycle preceded by jingles[i mod J]
RECURSIVE Interleaved(_, _, _, _)
Interleaved(tracks, jingles, k, t) ==
    IF t >= Len(tracks) THEN <<>>
    ELSE (IF t > 0 /\ t % k = 0
          THEN Cids(jingles[(((t \div k) - 1) % Len(jingles)) + 1])
          ELSE <<>>)
         \o Cids(tracks[t + 1])
         \o Interleaved(tracks, jingles, k, t + 1)

\* build_playlist has been applied
Built == playlist_file.kind = "m3u"

\* C12: with jingles enabled, J >= 1 jingles and cycle k, the virtual playlist
\* is the tracks' segments in order with the segments of jingles[i mod J]
\* immediately before the track of index k*(i+1), for every i with
\* k*(i+1) < number of tracks, and no other entry
C12_JingleInterleave ==
    (Built /\ setup_config.jingles.enabled /\ manifest_file.jingles # <<>>) =>
        load_playlist(playlist_file)
            = Interleaved(manifest_file.tracks, manifest_file.jingles,
                          setup_config.jingles.cycle, 0)

\* C12 witness: cycle 1, two jingles and four tracks: three jingle
\* occurrences, the third being jingles[0] again
C12_Witness ==
    /\ Built
    /\ setup_config.jingles.enabled
    /\ setup_config.jingles.cycle = 1
    /\ Len(manifest_file.jingles) = 2
    /\ Len(manifest_file.tracks) = 4
    /\ Len(load_playlist(playlist_file))
          >= CountSegments(manifest_file.tracks) + 3

\* the segments of every track, tracks in order
RECURSIVE Concatenated(_)
Concatenated(tracks) ==
    IF tracks = <<>> THEN <<>>
    ELSE Cids(Head(tracks)) \o Concatenated(Tail(tracks))

\* C13: with jingles disabled, or enabled with no processed jingle, the
\* virtual playlist is exactly the concatenation of the tracks' segment CIDs,
\* tracks in manifest order, segments in track order
C13_PlainConcatenation ==
    (Built /\ (~setup_config.jingles.enabled \/ manifest_file.jingles = <<>>)) =>
        load_playlist(playlist_file) = Concatenated(manifest_file.tracks)

\* C13 witness: jingles processed but disabled, several multi-segment tracks
C13_Witness ==
    /\ Built
    /\ ~setup_config.jingles.enabled
    /\ manifest_file.jingles # <<>>
    /\ Len(manifest_file.tracks) >= 2
    /\ \E i \in 1..Len(manifest_file.tracks) : manifest_file.tracks[i].segment_count = 2

\* the configuration a manifest was built for (its hash is collision-free)
ConfigOf(manifest) == manifest.config_hash.sha256

\* C14: a run in which a track fails at verification, chunking or an upload
\* exits with failure and leaves manifest.json and playlist.m3u as they were;
\* every manifest written lists all the tracks of its configuration
C14_FailedRunWritesNothing ==
    [][ SetupRunStep =>
          /\ setup_run'.exit = "failed" => UNCHANGED <<manifest_file, playlist_file>>
          /\ manifest_file'.kind = "json" =>
                manifest_file'.tracks
                    = ProcessAll(get_music_files(ConfigOf(manifest_file').playlist),
                                 "track")
      ]_vars

\* C14 witness: the second track failed after the first was processed, over
\* the manifest and playlist of an earlier build
C14_Witness ==
    /\ setup_run.exit = "failed"
    /\ setup_run.ffmpeg_calls >= 1
    /\ setup_run.ipfs_adds >= 2
    /\ manifest_file.kind = "json"
    /\ playlist_file.kind = "m3u"

\* the files of a sequence that are not in a set, in order
RECURSIVE Without(_, _)
Without(files, skipped) ==
    IF files = <<>> THEN <<>>
    ELSE (IF Head(files) \in skipped THEN <<>> ELSE <<Head(files)>>)
         \o Without(Tail(files), skipped)

\* C15: a jingle that fails is skipped and the run goes on: a rebuild that
\* skipped jingles does not exit with failure, and a completed rebuild writes
\* a manifest and a playlist with all the tracks and exactly the jingles that
\* did not fail, in sorted order
C15_JingleSkipped ==
    [][ SetupRunStep =>
          /\ setup_run'.skipped # {} => setup_run'.exit # "failed"
          /\ Regenerated(setup_run') =>
                /\ manifest_file'.tracks
                       = ProcessAll(get_music_files(playlist_config), "track")
                /\ manifest_file'.jingles
                       = ProcessAll(Without(get_jingle_files(setup_config),
                                            setup_run'.skipped), "jingle")
                /\ playlist_file' = build_playlist(manifest_file'.tracks,
                                                   manifest_file'.jingles, setup_config)
      ]_vars

\* C15 witness: the first jingle failed, the second is in the manifest and in
\* the playlist
C15_Witness ==
    /\ Regenerated(setup_run)
    /\ setup_run.skipped = {"j.mp3"}
    /\ Len(manifest_file.jingles) = 1
    /\ manifest_file.jingles[1].filename = "k.mp3"
    /\ \E i \in 1..Len(load_playlist(playlist_file)) :
         load_playlist(playlist_file)[i] = "J1_0"

\* C16 (as claimed): playlist.m3u on disk is always the playlist of the build
\* recorded in manifest.json, never that of a newer build
C16_AtomicPublish ==
    playlist_file.kind = "m3u" =>
        /\ manifest_file.kind = "json"
        /\ playlist_file = build_playlist(manifest_file.tracks, manifest_file.jingles,
                                          ConfigOf(manifest_file).setup)

\* ------------------------------------------------------- state synchronizer
\* the step of one handler of the synchronizer
SyncStep(op) == sync_log'.n # sync_log.n /\ sync_log'.op = op

\* the step rewrote current_position.json with a state
StateWritten ==
    \/ SyncStep("update") /\ sync_log'.did = "written"
    \/ current_position_file' # current_position_file
          /\ current_position_file'.kind = "json"
          /\ current_position_file'.state # OwnState

\* C17: a state written to current_position.json while a peer update is
\* processed is the state of an entry of the peer table whose timestamp is
\* the largest of the whole table, whoever sent the update
C17_LatestWins ==
    [][ StateWritten =>
          \E i \in 1..Len(remote_states') :
             /\ current_position_file' = PositionDoc(remote_states'[i].data.state)
             /\ \A j \in 1..Len(remote_states') :
                   remote_states'[j].data.timestamp <= remote_states'[i].data.timestamp
      ]_vars

\* C17 witness: the state with timestamp 200 arrived first, the one with
\* timestamp 100 from the other peer after it, both fresh; the file holds the
\* timestamp-200 state
C17_Witness ==
    /\ sync_log.op = "update"
    /\ sync_log.did = "written"
    /\ Len(remote_states) = 2
    /\ remote_states[1].data.timestamp = 200
    /\ remote_states[2].data.timestamp = 100
    /\ now - 200 < MaxStateAge
    /\ current_position_file = PositionDoc(remote_states[1].data.state)

\* C18: a state is written to current_position.json only when, at that
\* moment, now - state.timestamp < 300
C18_FreshWhenWritten ==
    [][ StateWritten => now - current_position_file'.state.timestamp < MaxStateAge ]_vars

\* C18 witness: an update was processed while the largest timestamp of the
\* table was exactly 300 s old, and nothing was written
C18_Witness ==
    /\ sync_log.op = "update"
    /\ sync_log.did = "nothing"
    /\ \E i \in 1..Len(remote_states) :
         /\ remote_states[i].data.timestamp > 0
         /\ now - remote_states[i].data.timestamp = MaxStateAge
         /\ \A j \in 1..Len(remote_states) :
               remote_states[j].data.timestamp <= remote_states[i].data.timestamp

\* C19 (as claimed): after a reaper pass every entry left in the peer table
\* has now - received_at < 600
C19_ReapedBelowBound ==
    [][ SyncStep("reap") =>
          \A i \in 1..Len(remote_states') :
             now - remote_states'[i].data.received_at < MaxPeerAge ]_vars

\* C19 (amended): after a reaper pass every entry left in the peer table has
\* now - received_at <= 600: an entry older than 600 s does not survive
C19_ReapedUpToBound ==
    [][ SyncStep("reap") =>
          \A i \in 1..Len(remote_states') :
             now - remote_states'[i].data.received_at <= MaxPeerAge ]_vars

\* C19 witness: a pass removed an entry and kept another
C19_Witness ==
    /\ sync_log.op = "reap"
    /\ sync_log.did # {}
    /\ remote_states # <<>>

\* the publisher sent the file's content to pubsub/pub in this cycle
Sent == sync_log'.did \in {"published", "failed"}

\* C20 (as claimed): a publisher cycle publishes the content of the state
\* file if and only if the file exists and its content differs from the value
\* last published successfully; a failed publish leaves that value as it was
C20_PublishIffUnpublished ==
    [][ SyncStep("publish") =>
          /\ Sent <=> /\ current_position_file # Absent
                      /\ current_position_file # PositionDoc(last_published)
          /\ sync_log'.did = "failed" => last_published' = last_published
      ]_vars

\* C20 (amended): a publisher cycle publishes the content of the state file
\* if and only if the file holds a JSON document that differs from
\* local_state (the state last published successfully or last adopted from a
\* peer, whichever is later); a successful publish makes it local_state, a
\* failed one changes nothing, so the next cycle sends it again
C20_PublishIffChanged ==
    [][ SyncStep("publish") =>
          /\ Sent <=> /\ current_position_file.kind = "json"
                      /\ current_position_file.state # local_state
          /\ sync_log'.did = "published" =>
                /\ local_state' = current_position_file.state
                /\ last_published' = current_position_file.state
          /\ sync_log'.did = "failed" =>
                /\ UNCHANGED <<local_state, last_published, current_position_file>>
                /\ current_position_file'.state # local_state'
      ]_vars

\* C20 witness: the node's own position was published after a peer's state
\* had been adopted
C20_Witness ==
    /\ sync_log.op = "publish"
    /\ sync_log.did = "published"
    /\ last_published = OwnState
    /\ local_state = OwnState
    /\ remote_states # <<>>

\* ------------------------------------------------- subscriber's connection

\* C21 (as claimed): while running is true, every drop of the pub/sub stream,
\* whether the stream ended or failed, is eventually followed by a new
\* subscription attempt, however many drops came before
C21_DropThenResubscribe ==
    [](running /\ sync_log.op = "drop" => <>(sub_pc = "subscribing" \/ ~running))

\* C22: a line that is not a decodable position state (no u prefix, an
\* envelope or a payload that does not decode, no data field, a blank line)
\* changes neither the peer table nor local_state nor current_position.json
\* and leaves the subscriber consuming the stream; the line after it, when it
\* carries a state, is stored in the peer table as received
C22_BadLineIgnored ==
    [][ /\ SyncStep("ignored") =>
             /\ sync_log'.did \in LineKinds \ {"state"}
             /\ UNCHANGED <<remote_states, local_state, current_position_file>>
             /\ sub_pc' = "consuming"
        /\ (sync_log.op = "ignored" /\ SyncStep("update")) =>
             \E state \in PeerStates :
                remote_states' = Put(remote_states, state.node_id,
                                     [state |-> state, timestamp |-> state.timestamp,
                                      received_at |-> now])
      ]_vars

\* a line that could not be decoded was ignored by a subscriber holding peer
\* states and an adopted state
C22_Witness ==
    /\ sync_log.op = "ignored"
    /\ sync_log.did \in {"prefix", "envelope", "base64", "payload"}
    /\ remote_states # <<>>
    /\ local_state # None
    /\ current_position_file.kind = "json"
    /\ sub_pc = "consuming"

\* C23 (as claimed): what a read of current_position.json by the publisher
\* returns is a complete document, the previous one or the new one, never an
\* empty or partly written file
C23_AtomicRewrite == publisher_read = None \/ publisher_read.kind = "json"

\* ------------------------------------------------------------ multibase codec

\* C24: for every text t, the subscriber's decoding (drop the leading u,
\* append ==, url-safe base64 decode, UTF-8 decode) of
\* encode_topic_multibase(t) is t, whatever the number of bytes of t modulo 3
C24_RoundTrip == data_text # NotYet => data_text = topic

\* a text with a multi-byte code point, whose bytes leave a remainder of one
\* modulo 3 (its encoding lost two padding characters), came back
C24_Witness ==
    /\ data_text = topic
    /\ Len(Utf8Encode(topic)) % 3 = 1
    /\ \E i \in 1..Len(topic) : topic[i] > 127
    /\ Len(data_multibase) % 4 = 3

\* ------------------------------------------------------------ segment cleanup

CleanupStep == cleanup_cycles' = cleanup_cycles + 1

\* the segment named a is older than the one named b: smaller timestamp, or
\* the same timestamp and inserted earlier
OlderThan(bucket, i, j) ==
    \/ bucket[i].timestamp < bucket[j].timestamp
    \/ bucket[i].timestamp = bucket[j].timestamp /\ i < j

\* the names of the count - MAX_SEGMENTS oldest segments of a bucket
OldestExcess(bucket) ==
    {bucket[j].filename : j \in {j \in 1..Len(bucket) :
        Cardinality({i \in 1..Len(bucket) : OlderThan(bucket, i, j)})
            < Len(bucket) - MAX_SEGMENTS}}

\* the names of the segments past the retention time
PastRetention(bucket, current_time) ==
    {bucket[i].filename : i \in {i \in 1..Len(bucket) :
        current_time - bucket[i].timestamp > SEGMENT_RETENTION_TIME}}

\* C25: in a cleanup cycle the segments listed for removal are exactly those
\* with now - timestamp > RETENTION_TIME together with the count -
\* MAX_SEGMENTS oldest when count > MAX_SEGMENTS, each listed once; when none
\* is past retention, count > MAX_SEGMENTS and every unpin succeeds, the
\* document the cycle saves holds exactly the MAX_SEGMENTS newest entries
C25_RemovalSet ==
    [][ CleanupStep =>
          LET bucket == load_segment_state(segment_state_file)
              listed == cleaner_log'.listed
              names  == {listed[i].seg.filename : i \in 1..Len(listed)}
          IN
          /\ names = PastRetention(bucket, now) \cup OldestExcess(bucket)
          /\ Cardinality(names) = Len(listed)
          /\ \A i \in 1..Len(listed) :
               \E j \in 1..Len(bucket) : listed[i].seg = bucket[j]
          /\ (/\ PastRetention(bucket, now) = {}
              /\ Len(bucket) > MAX_SEGMENTS
              /\ cleaner_log'.unpinned = names
              /\ cleaner_log'.saved = "ok") =>
                /\ segment_state_file'.kind = "json"
                /\ Len(segment_state_file'.stream) = MAX_SEGMENTS
                /\ segment_state_file'.stream = DeleteFrom(bucket, OldestExcess(bucket))
                /\ \A k \in 1..Len(segment_state_file'.stream), j \in 1..Len(bucket) :
                     bucket[j].filename \in names =>
                        bucket[j].timestamp <= segment_state_file'.stream[k].timestamp
      ]_vars

\* a cycle over more than MAX_SEGMENTS segments, none past retention, removed
\* the excess, every unpin succeeded and the document was saved: the entry
\* kept is the newest, which the uploader had inserted first
C25_Witness ==
    /\ cleanup_cycles = 1
    /\ Len(cleaner_log.listed) = MaxStored - MAX_SEGMENTS
    /\ \A i \in 1..Len(cleaner_log.listed) : cleaner_log.listed[i].reason = "count"
    /\ Cardinality(cleaner_log.unpinned) = Len(cleaner_log.listed)
    /\ cleaner_log.saved = "ok"
    /\ segment_state_file.kind = "json"
    /\ Len(segment_state_file.stream) = MAX_SEGMENTS
    /\ segment_state_file.stream[1].filename = 1
    /\ \E i \in 1..Len(cleaner_log.listed) :
         cleaner_log.listed[i].seg.timestamp < segment_state_file.stream[1].timestamp

\* C26 (as claimed): after a cleanup cycle that left a readable document, every
\* listed segment whose unpin failed still has its entry in the document
C26_RemovedOnlyIfUnpinned ==
    [][ (CleanupStep /\ segment_state_file'.kind = "json") =>
          \A i \in 1..Len(cleaner_log'.listed) :
             cleaner_log'.listed[i].seg.filename \notin cleaner_log'.unpinned =>
                cleaner_log'.listed[i].seg.filename
                    \in Filenames(segment_state_file'.stream)
      ]_vars

\* C27: a cleanup cycle is followed by garbage_collect and then
\* get_storage_stats exactly when its number, counted from the start of the
\* service, is a multiple of 10; the segment cleanup comes first in every
\* cycle, whatever it or an earlier collection did
C27_GcEveryTenth ==
    [][ CleanupStep =>
          cleaner_log'.calls =
             IF cleanup_cycles' % 10 = 0
             THEN <<"cleanup_old_segments", "garbage_collect", "get_storage_stats">>
             ELSE <<"cleanup_old_segments">>
      ]_vars

\* the twentieth cycle, whose cleanup could not save the document, ran the
\* collection and the report
C27_Witness ==
    /\ cleanup_cycles = 20
    /\ cleaner_log.saved = "unchanged"
    /\ cleaner_log.calls = <<"cleanup_old_segments", "garbage_collect", "get_storage_stats">>
    /\ ~cleaner_log.gc_ok

\* ------------------------------------------------------------- hls uploader

\* C28: after every add_segment call the bucket holds at most MAX_SEGMENTS
\* entries: the entries dropped are the earliest inserted, the segment just
\* added is kept, and the trimmed bucket is what a successful save leaves in
\* ipfs_segments.json
C28_BoundedBucket ==
    [][ uploader_log'.op = "add" =>
          LET put == PutSegment(segment_map,
                                SegmentRecord(uploader_log'.filename, now))
              k   == uploader_log'.dropped
          IN
          /\ Len(segment_map') <= MAX_SEGMENTS
          /\ k = Len(put) - Len(segment_map')
          /\ segment_map' = SubSeq(put, k + 1, Len(put))
          /\ k > 0 => Len(segment_map') = MAX_SEGMENTS
          /\ \E i \in 1..Len(segment_map') :
               segment_map'[i] = SegmentRecord(uploader_log'.filename, now)
          /\ uploader_log'.saved = "ok" =>
               segment_state_file' = SegmentsDoc(segment_map')
      ]_vars

\* an add_segment call that dropped the earliest entry of a full bucket and
\* saved the trimmed bucket
C28_Witness ==
    /\ uploader_log.op = "add"
    /\ uploader_log.dropped = 1
    /\ uploader_log.saved = "ok"
    /\ Len(segment_map) = MAX_SEGMENTS
    /\ segment_map[Len(segment_map)].filename = uploader_log.filename
    /\ segment_state_file = SegmentsDoc(segment_map)

\* ----------------------------------------------------------- stream_info.json

LastPublished == published[Len(published)]

\* stream_info.json reports the sequence and position of a published playlist
Reports(file, pub) ==
    /\ file.kind = "json"
    /\ file.sequence_number = pub.playlist.media_sequence
    /\ file.playlist_position = pub.playlist.media_sequence % Len(pub.entries)

InfoStep == pc = "published" /\ pc' = "info_written"

ModuloTimestamp(manifest) == [manifest EXCEPT !.timestamp = 0]

\* C30 (as claimed): two rebuilds of the same input files under the same
\* configuration, the transcoder and the store answering alike, write the
\* same playlist.m3u and manifests that differ in the timestamp at most
C30_RebuildDeterministic ==
    [][ (/\ SetupRunStep
         /\ Regenerated(setup_run) /\ Regenerated(setup_run')
         /\ setup_run'.skipped = setup_run.skipped
         /\ manifest_file.kind = "json") =>
            /\ playlist_file' = playlist_file
            /\ ModuloTimestamp(manifest_file') = ModuloTimestamp(manifest_file)
      ]_vars

\* --------------------------------------------------- ties in the peer table

\* the entry of the table the handler has just assigned
JustWritten(i) ==
    \/ i > Len(remote_states)
    \/ remote_states'[i] # remote_states[i]

\* C31 (as claimed): when the entry just written carries the largest timestamp
\* of the table, another entry carrying the same timestamp, the state selected
\* and written is that of the entry just written (last writer wins)
C31_LastWriterWins ==
    [][ (StateWritten /\ remote_states' # remote_states) =>
          \A i \in 1..Len(remote_states') :
             (/\ JustWritten(i)
              /\ \A j \in 1..Len(remote_states') :
                    remote_states'[j].data.timestamp <= remote_states'[i].data.timestamp)
             => current_position_file' = PositionDoc(remote_states'[i].data.state)
      ]_vars

\* ------------------------------------------------- text of the media playlist

\* the lines of a text, each ended by a newline
LineOf(text, k) == text[2 * k - 1]

\* C32: for a window of n >= 1 segments the text is the four header lines
\* (#EXTM3U, version 3, target duration 7, media sequence S) and n groups of a
\* PROGRAM-DATE-TIME line, #EXTINF:6.0, and /ipfs/<CID>, every line ended by a
\* newline; the i-th group's time is the time of the call minus 6 * (n - 1 - i)
\* seconds, written to the millisecond
C32_PlaylistText ==
    (hls_text # NoText /\ Len(hls_segments) >= 1) =>
        LET n == Len(hls_segments) IN
        /\ Len(hls_text) = 2 * (4 + 3 * n)
        /\ \A k \in 1..(4 + 3 * n) : hls_text[2 * k] = Newline
        /\ LineOf(hls_text, 1) = TagLine("#EXTM3U")
        /\ LineOf(hls_text, 2) = TagLine("#EXT-X-VERSION:3")
        /\ LineOf(hls_text, 3) = TagLine("#EXT-X-TARGETDURATION:7")
        /\ LineOf(hls_text, 4) = [kind |-> "media_sequence", text |-> hls_sequence]
        /\ \A i \in 0..(n - 1) :
             /\ LineOf(hls_text, 5 + 3 * i).kind = "program_date_time"
             /\ LineOf(hls_text, 5 + 3 * i).text
                   = (hls_time \div 1000) - 6000 * (n - 1 - i)
             /\ LineOf(hls_text, 6 + 3 * i) = TagLine("#EXTINF:6.0,")
             /\ LineOf(hls_text, 7 + 3 * i) = UriLine(hls_segments[i + 1])

\* the text of a window of MaxWindow segments generated at an instant that is
\* no whole millisecond: the last group carries that instant
C32_Witness ==
    /\ hls_text # NoText
    /\ Len(hls_segments) = MaxWindow
    /\ hls_time % 1000 # 0
    /\ hls_sequence > 0
    /\ LineOf(hls_text, 4 + 3 * MaxWindow - 2).text = hls_time \div 1000
    /\ hls_segments[1] # hls_segments[MaxWindow]

\* ------------------------------------------------------- streamer restarts

\* a playlist is published after another one
PublishedAgain == Len(published) >= 1 /\ Len(published') = Len(published) + 1

\* C33: while no read or write of sequence_state.json fails, a playlist
\* published after another one, the streamer stopped and restarted in between
\* or not, carries the same MEDIA-SEQUENCE or the next one
C33_RestartKeepsPosition ==
    [][ PublishedAgain =>
          published'[Len(published')].playlist.media_sequence
            - LastPublished.playlist.media_sequence \in {0, 1}
      ]_vars

\* advancing at every tick, the same sequence was published twice in a row:
\* the streamer was stopped after the first publish and before the advance,
\* and published again after its restart
C33_Witness ==
    /\ advance_every = 1
    /\ Len(published) >= 2
    /\ LastPublished.playlist.media_sequence > 1
    /\ published[Len(published) - 1].playlist.media_sequence
          = LastPublished.playlist.media_sequence
    /\ sequence_state_file = SeqDoc(LastPublished.playlist.media_sequence)

\* ------------------------------------------------------ the steps of a tick

\* the playlist text update_stream builds in the current tick
TickPlaylist ==
    generate_hls_playlist(
        get_window_segments(playlist_entries, sequence_number, max_segments),
        sequence_number)

\* C34: a publish follows the successful upload of the playlist built in the
\* same tick and publishes that playlist; stream_info.json is written after
\* the publish and the window advances after that write; a tick whose upload
\* failed publishes nothing
C34_PublishesTheUpload ==
    [][ /\ published' # published =>
             /\ pc = "uploaded" /\ pc' = "published"
             /\ TickPlaylist.uris # <<>>
             /\ playlist_content = TickPlaylist
             /\ published' = Append(published, [playlist |-> TickPlaylist,
                                                 entries  |-> playlist_entries])
        /\ (pc' = "uploaded" /\ pc # "uploaded") =>
             pc = "loop" /\ playlist_content' = TickPlaylist
        /\ (pc = "loop" /\ pc' = "loop") => UNCHANGED published
        /\ stream_info_file' # stream_info_file =>
             /\ pc = "published" /\ pc' = "info_written"
             /\ LastPublished.playlist = TickPlaylist
        /\ (pc' = "info_written" /\ pc # "info_written") => pc = "published"
        /\ (pc # "stopped" /\ sequence_number' # sequence_number /\ pc' # "stopped") =>
             pc = "info_written" /\ pc' = "loop"
        /\ (pc # "stopped" /\ update_counter' # update_counter /\ pc' # "stopped") =>
             pc = "info_written" /\ pc' = "loop"
      ]_vars

\* a tick failed and published nothing, then the next tick published its
\* own upload and wrote stream_info.json
C34_Witness ==
    /\ pc = "info_written"
    /\ updated = "False"
    /\ Len(published) = 1
    /\ LastPublished.playlist = TickPlaylist
    /\ stream_info_file # Absent

\* ------------------------------------------------------ the streamer's progress

\* a tick ends in failure, the upload or the publish failed, while the
\* publication could still be recorded
FailedTick ==
    /\ pc' = "loop" /\ updated' = "False"
    /\ Len(published) < MaxPublished

\* the streamer runs with its key and a non-empty virtual playlist, and the
\* publications still to be recorded suffice for the next advance
CanAdvance ==
    /\ pc # "stopped"
    /\ stream_key # "none"
    /\ Len(playlist_entries) > 0
    /\ Len(published) + (advance_every - update_counter) <= MaxPublished

\* C35: if from some point on no tick fails, then with the key present and a
\* non-empty virtual playlist every sequence number S is followed by S + 1,
\* and S changes in no other way, whatever ticks failed before and however
\* the writes of sequence_state.json end; so S grows without bound and
\* S mod L passes every index again and again
C35_KeepsAdvancing ==
    /\ [][ (pc # "stopped" /\ sequence_number' # sequence_number) =>
              sequence_number' = sequence_number + 1 ]_vars
    /\ (<>[][~FailedTick]_vars) =>
          \A n \in 0..(MaxSequence + MaxPublished) :
             (CanAdvance /\ sequence_number = n) ~> (sequence_number = n + 1)

\* the window advanced although the write of sequence_state.json failed
C35_Witness ==
    /\ pc = "loop"
    /\ updated = "True"
    /\ sequence_state_file = Corrupt
    /\ sequence_number >= 2
    /\ Len(published) >= 2

\* ------------------------------------------------- the reaper and the subscriber

\* C36: the entry the reaper deletes is stale at the moment of the deletion
C36_DeletesOnlyStale ==
    [][ (reaper_pass.stage = "delete" /\ remote_states' # remote_states) =>
            Stale(Entry(remote_states, Head(reaper_pass.keys)).data, now)
      ]_vars

\* ---------------------------------------------- the publisher and adopted states

\* C37: the publisher never sends out the state the subscriber has just
\* written to current_position.json
C37_AdoptedNotPublished ==
    [][ (sync_log'.op = "publish" /\ last_published' # last_published) =>
            ~ /\ writing # None
              /\ writing.stage = "closed"
              /\ last_published' = writing.state
      ]_vars

\* ------------------------------------------ the two writers of ipfs_segments.json

\* the records of a document
Records(file) ==
    LET bucket == load_segment_state(file) IN {bucket[i] : i \in 1..Len(bucket)}

\* the records the last cleanup cycle unpinned and removed from the document
RemovedByCleaner ==
    IF cleaner_log.saved # "ok" THEN {}
    ELSE {rec \in {cleaner_log.listed[i].seg : i \in 1..Len(cleaner_log.listed)} :
             rec.filename \in cleaner_log.unpinned}

\* C38: a write of the document by the uploader puts back no record that the
\* cleanup service unpinned and removed
C38_RemovedStaysRemoved ==
    [][ (uploader_log'.op = "add" /\ segment_state_file' # segment_state_file) =>
            (Records(segment_state_file') \cap RemovedByCleaner)
               \subseteq Records(segment_state_file)
      ]_vars

\* ------------------------------------------------- jingles and the wrap-around

\* the positions of the virtual playlist at which a jingle starts
JingleStarts(entries) ==
    {p \in 1..Len(entries) :
        \E j \in 1..Len(manifest_file.jingles) :
            entries[p] = manifest_file.jingles[j].segments[1].cid}

\* C39: with jingles enabled, at least one jingle, N >= 1 tracks and cycle k,
\* the virtual playlist holds (N - 1) \div k jingle occurrences, starts with
\* the first segment of the first track and ends with the last segment of the
\* last track
C39_JinglesBetweenTracks ==
    (/\ Built
     /\ setup_config.jingles.enabled
     /\ manifest_file.jingles # <<>>
     /\ manifest_file.tracks # <<>>) =>
        LET entries == load_playlist(playlist_file)
            tracks  == manifest_file.tracks
            last    == tracks[Len(tracks)]
        IN /\ Cardinality(JingleStarts(entries))
                = (Len(tracks) - 1) \div setup_config.jingles.cycle
           /\ entries[1] = tracks[1].segments[1].cid
           /\ entries[Len(entries)] = last.segments[Len(last.segments)].cid

\* C39 witness: four tracks and cycle 2: the number of tracks is a multiple of
\* the cycle and the playlist holds one jingle, between the second track and
\* the third
C39_Witness ==
    /\ Built
    /\ setup_config.jingles.enabled
    /\ setup_config.jingles.cycle = 2
    /\ Len(manifest_file.tracks) = 4
    /\ manifest_file.jingles # <<>>
    /\ Cardinality(JingleStarts(load_playlist(playlist_file))) = 1
    /\ LET p == CHOOSE q \in JingleStarts(load_playlist(playlist_file)) : TRUE IN
       p = manifest_file.tracks[1].segment_count + manifest_file.tracks[2].segment_count + 1

\* --------------------------------------------- playlist.m3u, written and read

\* the segment CIDs build_playlist is to emit for the manifest in hand
EmittedCids ==
    IF setup_config.jingles.enabled /\ manifest_file.jingles # <<>>
    THEN Interleaved(manifest_file.tracks, manifest_file.jingles,
                     setup_config.jingles.cycle, 0)
    ELSE Concatenated(manifest_file.tracks)

\* the positions of the lines of a kind in playlist.m3u
LinesOfKind(kind) ==
    {p \in 1..Len(playlist_file.lines) : playlist_file.lines[p].kind = kind}

\* the streamer has read the text of playlist.m3u
PlaylistRead == pc = "loaded"

\* C40: the entries the streamer loads from the text of playlist.m3u are the
\* segment CIDs build_playlist emitted, in order; their number L is the number
\* of #EXTINF lines written, and every entry comes from a /ipfs/ line, none
\* from the header or an #EXTINF line
C40_LoadedIsEmitted ==
    PlaylistRead =>
        /\ playlist_entries = EmittedCids
        /\ playlist_entries = load_playlist(playlist_file)
        /\ Len(playlist_entries) = Cardinality(LinesOfKind("extinf"))
        /\ Len(playlist_entries) = Cardinality(LinesOfKind("uri"))
        /\ Cardinality(LinesOfKind("tag")) = 1

\* C40 witness: a playlist with jingles read back: more entries than the
\* tracks have segments, as many as #EXTINF lines
C40_Witness ==
    /\ PlaylistRead
    /\ setup_config.jingles.enabled
    /\ Len(manifest_file.tracks) = 3
    /\ Len(playlist_entries) > CountSegments(manifest_file.tracks)
    /\ Len(playlist_entries) = Cardinality(LinesOfKind("extinf"))

====
